---- MODULE Spec2Model ----
(***************************************************************************)
(* A model of juju-restore: the restore command (cmd/restore.go), the      *)
(* Restorer it drives (core/restorer.go) and the value types both use      *)
(* (core/interfaces.go, core/errors.go).                                   *)
(*                                                                         *)
(* Collaborators behind interfaces (the database gateway, the backup file, *)
(* the controller nodes, the terminal) are the environment: every answer   *)
(* they can give is drawn with \E from a bounded set.                      *)
(***************************************************************************)
EXTENDS Integers, Sequences, FiniteSets, TLC

VARIABLES
    pc,                 \* position of the caller: the command's Run, or the API harness
    rpc,                \* position inside the Restorer operation in progress
    replicaSet,         \* Restorer.replicaSet, the cached replica set
    pre,                \* replicaSetStabilised: the copy kept before the wait
    attempt,            \* replicaSetStabilised: attempts made so far
    attemptErr,         \* replicaSetStabilised: err of the last attempt
    startAll,           \* StartAgents: its startSecondaries argument
    trace,              \* calls made on the collaborators, in order
    result,             \* what the last Restorer operation returned
    manualAgentControl, \* restoreCommand.manualAgentControl
    restart,            \* restoreCommand.restart (the dev-mode --rs option)
    allowDowngrade,     \* the allow-downgrade option handed to CheckRestorable
    backup,             \* what BackupFile.Metadata() returns
    controller,         \* what Database.ControllerInfo() returns
    cmdErr              \* what Run returned

vars == <<pc, rpc, replicaSet, pre, attempt, attemptErr, startAll, trace, result,
          manualAgentControl, restart, allowDowngrade, backup, controller, cmdErr>>

(***************************************************************************)
(* Bounds of the model.                                                    *)
(***************************************************************************)
MaxMembers == 3     \* members of a replica set handed to the health check
MaxNodes == 2       \* members of a replica set whose agents are managed
MaxBuild == 1       \* largest build number of a Juju version
MaxModelCount == 1  \* largest model count of a backup

(***************************************************************************)
(* Errors.  A Go error is a record of its cause's kind and its message;    *)
(* Nil is the nil error.                                                   *)
(***************************************************************************)
Nil == [kind |-> "nil", msg |-> ""]

Errorf(kind, msg) == [kind |-> kind, msg |-> msg]

Annotate(err, text) ==
    IF err = Nil THEN Nil
    ELSE IF err.kind = "panic" THEN err     \* a panic is no error value: it unwinds as it is
    ELSE [err EXCEPT !.msg = text \o ": " \o @]

(***************************************************************************)
(* core/interfaces.go: replica-set members.                                *)
(***************************************************************************)
statePrimary == "PRIMARY"
stateSecondary == "SECONDARY"

\* Any other replica state (https://docs.mongodb.com/manual/reference/replica-states/).
stateRecovering == "RECOVERING"

MongoPort == "37017"

Host(i) == "10.0.0." \o ToString(i)

MemberName(i) == Host(i) \o ":" \o MongoPort

\* fmt.Sprintf("%d %q (juju machine %v)", m.ID, m.Name, m.JujuMachineID)
MemberString(m) ==
    ToString(m.ID) \o " \"" \o m.Name \o "\" (juju machine " \o m.JujuMachineID \o ")"

RECURSIVE JoinStrings(_, _)
JoinStrings(parts, sep) ==
    IF Len(parts) = 0 THEN ""
    ELSE IF Len(parts) = 1 THEN parts[1]
    ELSE parts[1] \o sep \o JoinStrings(Tail(parts), sep)

RECURSIVE MapMemberString(_)
MapMemberString(members) ==
    IF Len(members) = 0 THEN <<>>
    ELSE <<MemberString(Head(members))>> \o MapMemberString(Tail(members))

\* core/errors.go: the error carries the members; Error() renders them.
NewUnhealthyMembersError(members) ==
    [kind |-> "unhealthyMembers",
     msg |-> "unhealthy replica set members: "
                \o JoinStrings(MapMemberString(members), ", "),
     members |-> members]

(***************************************************************************)
(* Restorer.CheckDatabaseState.  The loop keeps the last PRIMARY member it *)
(* meets (primary is a sequence of zero or one member: the nil pointer or  *)
(* the saved copy) and collects the members that break the per-member      *)
(* condition.                                                              *)
(***************************************************************************)
MemberIsUnhealthy(member) ==
    LET validState == member.State = statePrimary \/ member.State = stateSecondary
    IN ~validState \/ ~member.Healthy \/ member.JujuMachineID = ""

\* The scan with primary pointing at the loop variable itself: once a PRIMARY
\* was met, primary reads as the last member of the loop.
RECURSIVE ScanMembersAliased(_, _, _, _)
ScanMembersAliased(members, i, primary, unhealthyMembers) ==
    IF i > Len(members)
    THEN [primary |-> IF Len(primary) = 0 THEN <<>> ELSE <<members[Len(members)]>>,
          unhealthyMembers |-> unhealthyMembers]
    ELSE LET member == members[i]
         IN ScanMembersAliased(members, i + 1,
                IF member.State = statePrimary THEN <<member>> ELSE primary,
                IF MemberIsUnhealthy(member)
                THEN Append(unhealthyMembers, member) ELSE unhealthyMembers)

RECURSIVE ScanMembers(_, _, _, _)
ScanMembers(members, i, primary, unhealthyMembers) ==
    IF i > Len(members)
    THEN [primary |-> primary, unhealthyMembers |-> unhealthyMembers]
    ELSE LET member == members[i]
         IN ScanMembers(members, i + 1,
                IF member.State = statePrimary THEN <<member>> ELSE primary,
                IF MemberIsUnhealthy(member)
                THEN Append(unhealthyMembers, member) ELSE unhealthyMembers)

\* The check with the primary tests made before the unhealthy-members test.
CheckDatabaseStatePrimaryFirst(rs) ==
    LET scan == ScanMembers(rs.Members, 1, <<>>, <<>>)
    IN IF Len(scan.primary) = 0
       THEN Errorf("noPrimary", "no primary found in replica set")
       ELSE IF ~scan.primary[1].Self
       THEN Errorf("notPrimary", "not running on primary replica set member, primary is "
                                    \o MemberString(scan.primary[1]))
       ELSE IF Len(scan.unhealthyMembers) # 0
       THEN NewUnhealthyMembersError(scan.unhealthyMembers)
       ELSE Nil

\* Defined like CheckDatabaseState but for the test of primary.Self.
CheckDatabaseStateAnyPrimary(rs) ==
    LET scan == ScanMembers(rs.Members, 1, <<>>, <<>>)
    IN IF Len(scan.unhealthyMembers) # 0
       THEN NewUnhealthyMembersError(scan.unhealthyMembers)
       ELSE IF Len(scan.primary) = 0
       THEN Errorf("noPrimary", "no primary found in replica set")
       ELSE Nil

CheckDatabaseState(rs) ==
    LET scan == ScanMembers(rs.Members, 1, <<>>, <<>>)
    IN IF Len(scan.unhealthyMembers) # 0
       THEN NewUnhealthyMembersError(scan.unhealthyMembers)
       ELSE IF Len(scan.primary) = 0
       THEN Errorf("noPrimary", "no primary found in replica set")
       ELSE IF ~scan.primary[1].Self
       THEN Errorf("notPrimary", "not running on primary replica set member, primary is "
                                    \o MemberString(scan.primary[1]))
       ELSE Nil

\* Restorer.IsHA
\* Defined like IsHA but for the answer, which is always no.
IsHANever(rs) == FALSE

IsHA(rs) == Len(rs.Members) > 1

(***************************************************************************)
(* Juju versions (github.com/juju/version): Major.Minor[.Patch|-TagPatch]  *)
(* with an optional .Build.                                                *)
(***************************************************************************)
VersionString(v) ==
    (IF v.Tag = ""
     THEN ToString(v.Major) \o "." \o ToString(v.Minor) \o "." \o ToString(v.Patch)
     ELSE ToString(v.Major) \o "." \o ToString(v.Minor) \o "-" \o v.Tag \o ToString(v.Patch))
    \o (IF v.Build > 0 THEN "." \o ToString(v.Build) ELSE "")

Quote(s) == "\"" \o s \o "\""

\* Number.Compare: -1, 0 or 1.  A version with a tag sorts before the same
\* version without one ("2.8-beta5" < "2.8.5"...); the model's only tag is "beta".
Compare(v, w) ==
    IF v = w THEN 0
    ELSE LET less ==
                 IF v.Major # w.Major THEN v.Major < w.Major
                 ELSE IF v.Minor # w.Minor THEN v.Minor < w.Minor
                 ELSE IF v.Tag # w.Tag
                      THEN (IF v.Tag = "" THEN FALSE ELSE w.Tag = "")
                 ELSE IF v.Patch # w.Patch THEN v.Patch < w.Patch
                 ELSE v.Build < w.Build
         IN IF less THEN -1 ELSE 1

WithBuildZero(v) == [v EXCEPT !.Build = 0]

(***************************************************************************)
(* Restorer.CheckRestorable.  metadata and info are what Metadata() and    *)
(* ControllerInfo() returned: [err, value].  The result is a sequence of   *)
(* zero or one PrecheckResult (the nil pointer or the result).             *)
(***************************************************************************)
PrecheckFailed(err) == [result |-> <<>>, err |-> err]

\* The version test comparing the versions with their build numbers.
CheckVersionsWithBuild(bk, ctl, allow) ==
    IF allow
    THEN IF Compare(bk.JujuVersion, ctl.JujuVersion) = 1
         THEN Errorf("versionGreater",
                  "backup juju version " \o Quote(VersionString(bk.JujuVersion))
                  \o " is greater than controller version "
                  \o Quote(VersionString(ctl.JujuVersion)))
         ELSE Nil
    ELSE IF Compare(bk.JujuVersion, ctl.JujuVersion) = -1
    THEN Errorf("downgrade",
             "restoring backup would downgrade from juju "
             \o Quote(VersionString(ctl.JujuVersion)) \o " to "
             \o Quote(VersionString(bk.JujuVersion))
             \o " - pass --allow-downgrade if this is intended")
    ELSE IF ctl.JujuVersion # bk.JujuVersion
    THEN Errorf("versionMismatch",
             "juju versions don't match - backup: "
             \o Quote(VersionString(bk.JujuVersion)) \o ", controller: "
             \o Quote(VersionString(ctl.JujuVersion)))
    ELSE Nil

\* The version test with the two versions swapped in the comparisons.
CheckVersionsSwapped(bk, ctl, allow) ==
    LET controllerVersion == WithBuildZero(ctl.JujuVersion)
        backupVersion == WithBuildZero(bk.JujuVersion)
    IN IF allow
       THEN IF Compare(controllerVersion, backupVersion) = 1
            THEN Errorf("versionGreater",
                     "backup juju version " \o Quote(VersionString(bk.JujuVersion))
                     \o " is greater than controller version "
                     \o Quote(VersionString(ctl.JujuVersion)))
            ELSE Nil
       ELSE IF Compare(controllerVersion, backupVersion) = -1
       THEN Errorf("downgrade",
                "restoring backup would downgrade from juju "
                \o Quote(VersionString(controllerVersion)) \o " to "
                \o Quote(VersionString(backupVersion))
                \o " - pass --allow-downgrade if this is intended")
       ELSE IF controllerVersion # backupVersion
       THEN Errorf("versionMismatch",
                "juju versions don't match - backup: "
                \o Quote(VersionString(bk.JujuVersion)) \o ", controller: "
                \o Quote(VersionString(ctl.JujuVersion)))
       ELSE Nil

\* The version test: Nil, or the error it ends CheckRestorable with.
CheckVersions(bk, ctl, allow) ==
    LET controllerVersion == WithBuildZero(ctl.JujuVersion)
        backupVersion == WithBuildZero(bk.JujuVersion)
    IN IF allow
       THEN IF Compare(backupVersion, controllerVersion) = 1
            THEN Errorf("versionGreater",
                     "backup juju version " \o Quote(VersionString(bk.JujuVersion))
                     \o " is greater than controller version "
                     \o Quote(VersionString(ctl.JujuVersion)))
            ELSE Nil
       ELSE IF Compare(backupVersion, controllerVersion) = -1
       THEN Errorf("downgrade",
                "restoring backup would downgrade from juju "
                \o Quote(VersionString(controllerVersion)) \o " to "
                \o Quote(VersionString(backupVersion))
                \o " - pass --allow-downgrade if this is intended")
       ELSE IF controllerVersion # backupVersion
       THEN Errorf("versionMismatch",
                "juju versions don't match - backup: "
                \o Quote(VersionString(bk.JujuVersion)) \o ", controller: "
                \o Quote(VersionString(ctl.JujuVersion)))
       ELSE Nil

\* The identity tests without the HA node count test.
CheckIdentityNoHANodes(bk, ctl) ==
    IF bk.ControllerModelUUID # ctl.ControllerModelUUID
    THEN Errorf("uuidMismatch",
             "controller model uuids don't match - backup: "
             \o Quote(bk.ControllerModelUUID) \o ", controller: "
             \o Quote(ctl.ControllerModelUUID))
    ELSE IF bk.Series # ctl.Series
    THEN Errorf("seriesMismatch",
             "controller series don't match - backup: "
             \o Quote(bk.Series) \o ", controller: " \o Quote(ctl.Series))
    ELSE Nil

\* The tests that follow the version test, in the code's order.
CheckIdentity(bk, ctl) ==
    IF bk.ControllerModelUUID # ctl.ControllerModelUUID
    THEN Errorf("uuidMismatch",
             "controller model uuids don't match - backup: "
             \o Quote(bk.ControllerModelUUID) \o ", controller: "
             \o Quote(ctl.ControllerModelUUID))
    ELSE IF bk.HANodes # ctl.HANodes
    THEN Errorf("haMismatch",
             "controller HA node counts don't match - backup: "
             \o ToString(bk.HANodes) \o ", controller: " \o ToString(ctl.HANodes))
    ELSE IF bk.Series # ctl.Series
    THEN Errorf("seriesMismatch",
             "controller series don't match - backup: "
             \o Quote(bk.Series) \o ", controller: " \o Quote(ctl.Series))
    ELSE Nil

CheckRestorable(metadata, info, allow) ==
    IF metadata.err # Nil
    THEN PrecheckFailed(Annotate(metadata.err, "getting backup metadata"))
    ELSE IF info.err # Nil
    THEN PrecheckFailed(Annotate(info.err, "getting controller info"))
    ELSE LET bk == metadata.value
             ctl == info.value
         IN IF CheckVersions(bk, ctl, allow) # Nil
            THEN PrecheckFailed(CheckVersions(bk, ctl, allow))
            ELSE IF CheckIdentity(bk, ctl) # Nil
            THEN PrecheckFailed(CheckIdentity(bk, ctl))
            ELSE [result |-> <<[BackupDate |-> bk.BackupCreated,
                                ControllerModelUUID |-> bk.ControllerModelUUID,
                                BackupJujuVersion |-> bk.JujuVersion,
                                ControllerJujuVersion |-> ctl.JujuVersion,
                                ModelCount |-> bk.ModelCount]>>,
                  err |-> Nil]

(***************************************************************************)
(* The values the environment can hand out.                                *)
(***************************************************************************)
States == {statePrimary, stateSecondary, stateRecovering}

MemberChoices == [State : States, Healthy : BOOLEAN, HasID : BOOLEAN]

MkMember(i, c, self) ==
    [ID |-> i, Name |-> MemberName(i), Self |-> self, Healthy |-> c.Healthy,
     State |-> c.State, JujuMachineID |-> IF c.HasID THEN ToString(i - 1) ELSE ""]

MkReplicaSet(members) == [Name |-> "juju", Members |-> members]

Versions ==
    [Major : {2}, Minor : {7, 8}, Tag : {"", "beta"}, Patch : {5, 6}, Build : 0..MaxBuild]

UUIDs == {"how-bizarre", "alex the astronaut"}
SeriesNames == {"disco", "focal"}
HACounts == {1, 3}
BackupDates == {"2020-03-17T16:28:24Z"}

BackupMetadatas ==
    [FormatVersion : {1}, ControllerModelUUID : UUIDs, JujuVersion : Versions,
     Series : SeriesNames, BackupCreated : BackupDates, Hostname : {"juju-123456-0"},
     ContainsLogs : {TRUE}, ModelCount : 0..MaxModelCount, HANodes : HACounts]

ControllerInfos ==
    [ControllerModelUUID : UUIDs, JujuVersion : Versions, Series : SeriesNames,
     HANodes : HACounts]

Returned(v) == [err |-> Nil, value |-> v]
Failed(msg) == [err |-> Errorf("collaborator", msg), value |-> <<>>]

NoResult == [op |-> "none", err |-> Nil, value |-> <<>>]
NoReplicaSet == MkReplicaSet(<<>>)

\* One call made on a collaborator: the object, the method, its argument (or
\* the node's ip) and whether it returned without an error.
Event(obj, op, arg, ok) == [obj |-> obj, op |-> op, arg |-> arg, ok |-> ok]

(***************************************************************************)
(* Controller nodes and the agents on them.                                *)
(***************************************************************************)
HostIndexes == 1..(MaxMembers + MaxNodes)

\* The member's name up to its first ":".
IPOfName(name) == CHOOSE h \in {Host(i) : i \in HostIndexes} : name = h \o ":" \o MongoPort

ControllerNodeForReplicaSetMember(member) ==
    [ip |-> IPOfName(member.Name), jujuID |-> member.JujuMachineID, local |-> member.Self]

NodeString(n) == "machine " \o n.jujuID \o " (" \o n.ip \o ")"

\* What an operation on a node returns: the nodes of `failing` answer with an
\* error, the others with nil.
Operation(op, ip, failing) ==
    IF ip \in failing THEN Errorf("machine", op \o " failed on " \o ip) ELSE Nil

IPs(nodes) == {nodes[i].ip : i \in 1..Len(nodes)}

\* Defined like manageAgents but for the order, which is always primary first.
manageAgentsPrimaryFirst(rs, all, primaryFirst, op, failing) ==
    LET selfs == SelectSeq(rs.Members, LAMBDA m : m.Self)
        others == SelectSeq(rs.Members, LAMBDA m : ~m.Self)
        primary == IF selfs = <<>> THEN <<>>
                   ELSE <<ControllerNodeForReplicaSetMember(selfs[Len(selfs)])>>
        secondaries == IF all
                       THEN [i \in 1..Len(others) |-> ControllerNodeForReplicaSetMember(others[i])]
                       ELSE <<>>
        order == IF primary = <<>> THEN <<>> ELSE primary \o secondaries
    IN [panicked |-> primary = <<>>,
        calls |-> [i \in 1..Len(order) |->
                     Event("node", op, order[i].ip, Operation(op, order[i].ip, failing) = Nil)],
        result |-> [ip \in IPs(order) |-> Operation(op, ip, failing)]]

\* Defined like manageAgents but for `all`, which is taken as true.
manageAgentsAll(rs, all, primaryFirst, op, failing) ==
    LET selfs == SelectSeq(rs.Members, LAMBDA m : m.Self)
        others == SelectSeq(rs.Members, LAMBDA m : ~m.Self)
        primary == IF selfs = <<>> THEN <<>>
                   ELSE <<ControllerNodeForReplicaSetMember(selfs[Len(selfs)])>>
        secondaries == [i \in 1..Len(others) |-> ControllerNodeForReplicaSetMember(others[i])]
        order == IF primaryFirst
                 THEN IF primary = <<>> THEN <<>> ELSE primary \o secondaries
                 ELSE secondaries \o primary
    IN [panicked |-> primary = <<>>,
        calls |-> [i \in 1..Len(order) |->
                     Event("node", op, order[i].ip, Operation(op, order[i].ip, failing) = Nil)],
        result |-> [ip \in IPs(order) |-> Operation(op, ip, failing)]]

\* manageAgents: the member loop keeps the node of the (last) self member as
\* primary and, if all, the nodes of the other members in member order; the
\* operation runs on the primary first or last. With no self member primary
\* is a nil interface and primary.IP() panics: at once when primaryFirst,
\* after the secondaries otherwise.
manageAgents(rs, all, primaryFirst, op, failing) ==
    LET selfs == SelectSeq(rs.Members, LAMBDA m : m.Self)
        others == SelectSeq(rs.Members, LAMBDA m : ~m.Self)
        primary == IF selfs = <<>> THEN <<>>
                   ELSE <<ControllerNodeForReplicaSetMember(selfs[Len(selfs)])>>
        secondaries == IF all
                       THEN [i \in 1..Len(others) |-> ControllerNodeForReplicaSetMember(others[i])]
                       ELSE <<>>
        order == IF primaryFirst
                 THEN IF primary = <<>> THEN <<>> ELSE primary \o secondaries
                 ELSE secondaries \o primary
    IN [panicked |-> primary = <<>>,
        calls |-> [i \in 1..Len(order) |->
                     Event("node", op, order[i].ip, Operation(op, order[i].ip, failing) = Nil)],
        result |-> [ip \in IPs(order) |-> Operation(op, ip, failing)]]

StopAgents(rs, stopSecondaries, failing) ==
    manageAgents(rs, stopSecondaries, FALSE, "StopAgent", failing)

\* StartAgents once replicaSetStabilised has returned.
StartAgents(rs, startSecondaries, failing) ==
    manageAgents(rs, startSecondaries, TRUE, "StartAgent", failing)

Panic == Errorf("panic", "invalid memory address or nil pointer dereference")

\* What the caller of an agent operation gets: the map, or the panic.
Managed(op, all, managed) ==
    [op |-> op, err |-> IF managed.panicked THEN Panic ELSE Nil,
     value |-> [all |-> all, panicked |-> managed.panicked,
                result |-> IF managed.panicked THEN <<>> ELSE managed.result]]

\* Defined like MaxAttempts but for one attempt more.
MaxAttemptsOneMore == 20 + 1

\* retry.LimitCount(20, ...): the attempts replicaSetStabilised makes at most.
MaxAttempts == 20

\* A replica set of n healthy members, the self-th of them the session's
\* member and the primary-th of them the primary (0 for none).
NodeReplicaSet(n, self, primary) ==
    MkReplicaSet([i \in 1..n |->
        MkMember(i, [State |-> IF i = primary THEN statePrimary ELSE stateSecondary,
                     Healthy |-> TRUE, HasID |-> TRUE], i = self)])

NodeReplicaSets ==
    {NodeReplicaSet(n[1], n[2], n[3]) :
        n \in {t \in (0..MaxNodes) \X (0..MaxNodes) \X (0..MaxNodes) : t[2] <= t[1] /\ t[3] <= t[1]}}

\* Replica sets whose last member is not healthy.
SickReplicaSets ==
    {[NodeReplicaSet(n, 1, 1) EXCEPT !.Members[n].Healthy = FALSE] : n \in 1..MaxNodes}

AllIPs(rs) == {IPOfName(rs.Members[i].Name) : i \in 1..Len(rs.Members)}

(***************************************************************************)
(* SpecHealth: CheckDatabaseState applied to every replica set of up to    *)
(* MaxMembers members, each in any condition, at most one of them the      *)
(* member the session is connected to.                                     *)
(***************************************************************************)
InitCommon ==
    /\ rpc = "idle"
    /\ pre = NoReplicaSet
    /\ attempt = 0
    /\ attemptErr = Nil
    /\ startAll = FALSE
    /\ trace = <<>>
    /\ result = NoResult
    /\ manualAgentControl = FALSE
    /\ restart = FALSE
    /\ allowDowngrade = FALSE
    /\ cmdErr = Nil

InitHealth ==
    /\ InitCommon
    /\ pc = "api"
    /\ \E n \in 0..MaxMembers : \E self \in 0..n : \E f \in [1..n -> MemberChoices] :
         replicaSet = MkReplicaSet([i \in 1..n |-> MkMember(i, f[i], i = self)])
    /\ backup = Failed("none")
    /\ controller = Failed("none")

ApiCheckDatabaseState ==
    /\ pc = "api"
    /\ rpc = "idle"
    /\ result' = [op |-> "CheckDatabaseState", err |-> CheckDatabaseState(replicaSet),
                  value |-> <<>>]
    /\ trace' = <<>>
    /\ UNCHANGED <<pc, rpc, replicaSet, pre, attempt, attemptErr, startAll,
                   manualAgentControl, restart, allowDowngrade, backup, controller, cmdErr>>

NextHealth == ApiCheckDatabaseState

SpecHealth == InitHealth /\ [][NextHealth]_vars

(***************************************************************************)
(* SpecPrecheck: CheckRestorable applied to every backup and controller    *)
(* of BackupMetadatas and ControllerInfos, with either flag.               *)
(***************************************************************************)
InitPrecheck ==
    /\ InitCommon
    /\ pc = "api"
    /\ replicaSet = NoReplicaSet
    /\ \/ \E b \in BackupMetadatas : backup = Returned(b)
       \/ backup = Failed("reading metadata.json")
    /\ \/ \E c \in ControllerInfos : controller = Returned(c)
       \/ controller = Failed("querying the controller model")

ApiCheckRestorable ==
    /\ pc = "api"
    /\ rpc = "idle"
    /\ \E allow \in BOOLEAN :
         LET r == CheckRestorable(backup, controller, allow)
         IN result' = [op |-> "CheckRestorable", err |-> r.err,
                       value |-> [allowDowngrade |-> allow, result |-> r.result]]
    /\ trace' = <<Event("backup", "Metadata", "", backup.err = Nil)>>
                 \o IF backup.err = Nil
                    THEN <<Event("db", "ControllerInfo", "", controller.err = Nil)>>
                    ELSE <<>>
    /\ UNCHANGED <<pc, rpc, replicaSet, pre, attempt, attemptErr, startAll,
                   manualAgentControl, restart, allowDowngrade, backup, controller, cmdErr>>

NextPrecheck == ApiCheckRestorable

SpecPrecheck == InitPrecheck /\ [][NextPrecheck]_vars

\* Defined like CheckSecondaryControllerNodes but for skipping the session's
\* member.
CheckAllControllerNodes(rs, failing) ==
    LET nodes == [i \in 1..Len(rs.Members) |-> ControllerNodeForReplicaSetMember(rs.Members[i])]
    IN [calls |-> [i \in 1..Len(nodes) |->
                     Event("node", "Ping", nodes[i].ip,
                           Operation("Ping", nodes[i].ip, failing) = Nil)],
        result |-> [ip \in IPs(nodes) |-> Operation("Ping", ip, failing)]]

\* CheckSecondaryControllerNodes: a Ping of the node of every member but the
\* self one, in member order; the nodes of `failing` do not answer.
CheckSecondaryControllerNodes(rs, failing) ==
    LET others == SelectSeq(rs.Members, LAMBDA m : ~m.Self)
        nodes == [i \in 1..Len(others) |-> ControllerNodeForReplicaSetMember(others[i])]
    IN [calls |-> [i \in 1..Len(nodes) |->
                     Event("node", "Ping", nodes[i].ip,
                           Operation("Ping", nodes[i].ip, failing) = Nil)],
        result |-> [ip \in IPs(nodes) |-> Operation("Ping", ip, failing)]]

(***************************************************************************)
(* SpecRestorer: StopAgents and StartAgents, each applied to a Restorer    *)
(* just built over a replica set of up to MaxNodes members, with either    *)
(* flag, any set of nodes failing and, for StartAgents, any answers of the *)
(* database during the wait.                                               *)
(***************************************************************************)
InitRestorer ==
    /\ InitCommon
    /\ pc = "api"
    /\ \E rs \in NodeReplicaSets : replicaSet = rs
    /\ backup = Failed("none")
    /\ controller = Failed("none")

\* CheckSecondaryControllerNodes on a Restorer just built.
ApiCheckSecondaryControllerNodes ==
    /\ pc = "api"
    /\ rpc = "idle"
    /\ result = NoResult
    /\ \E failing \in SUBSET AllIPs(replicaSet) :
         LET reachable == CheckSecondaryControllerNodes(replicaSet, failing)
         IN /\ result' = [op |-> "CheckSecondaryControllerNodes", err |-> Nil,
                          value |-> reachable.result]
            /\ trace' = reachable.calls
    /\ UNCHANGED <<pc, rpc, replicaSet, pre, attempt, attemptErr, startAll,
                   manualAgentControl, restart, allowDowngrade, backup, controller, cmdErr>>

ApiStopAgents ==
    /\ pc = "api"
    /\ rpc = "idle"
    /\ result = NoResult
    /\ \E stopSecondaries \in BOOLEAN : \E failing \in SUBSET AllIPs(replicaSet) :
         LET managed == StopAgents(replicaSet, stopSecondaries, failing)
         IN /\ result' = Managed("StopAgents", stopSecondaries, managed)
            /\ trace' = managed.calls
    /\ UNCHANGED <<pc, rpc, replicaSet, pre, attempt, attemptErr, startAll,
                   manualAgentControl, restart, allowDowngrade, backup, controller, cmdErr>>

\* StartAgents up to the first attempt of replicaSetStabilised: pre is kept.
BeginStartAgents(startSecondaries) ==
    /\ rpc = "idle"
    /\ rpc' = "stabilising"
    /\ pre' = replicaSet
    /\ attempt' = 0
    /\ attemptErr' = Nil
    /\ startAll' = startSecondaries
    /\ UNCHANGED <<replicaSet, manualAgentControl, restart, allowDowngrade,
                   backup, controller>>

ApiStartAgents ==
    /\ pc = "api"
    /\ result = NoResult
    /\ \E startSecondaries \in BOOLEAN : BeginStartAgents(startSecondaries)
    /\ UNCHANGED <<pc, trace, result, cmdErr>>

\* What the database can answer during the wait: any replica set when a
\* Restorer is driven alone; in a command run the replica set keeps its
\* number of members, and which of them is primary and which is the
\* session's can change.
ReplicaSetAnswers ==
    IF pc = "api" THEN NodeReplicaSets
    ELSE {rs \in NodeReplicaSets : Len(rs.Members) = Len(pre.Members)}

\* One turn of the loop of replicaSetStabilised: attempt.Next() and
\* checkReplicaset(). The database answers with an error or with a replica
\* set; the error of this call is retried on and never handed to a caller.
StabiliseAttempt ==
    /\ rpc = "stabilising"
    /\ attempt < MaxAttempts
    /\ attempt = 0 \/ attemptErr # Nil
    /\ attempt' = attempt + 1
    /\ trace' = Append(trace, Event("db", "ReplicaSet", "", TRUE))
    /\ \/ /\ attemptErr' = Annotate(Failed("replSetGetStatus").err,
                                    "getting database replica set")
          /\ UNCHANGED replicaSet
       \/ \E rs \in ReplicaSetAnswers :
            /\ replicaSet' = rs
            /\ attemptErr' = Annotate(CheckDatabaseState(rs), "replicaset is sick")
    /\ UNCHANGED <<pc, rpc, pre, startAll, result, manualAgentControl, restart,
                   allowDowngrade, backup, controller, cmdErr>>

WaitOver == attempt = MaxAttempts \/ (attempt > 0 /\ attemptErr = Nil)

\* Defined like Stabilised but for putting pre back.
StabilisedLastSeen == replicaSet

\* The replica set manageAgents works on once the wait is over: pre is put
\* back if the last attempt failed.
Stabilised == IF attemptErr # Nil THEN pre ELSE replicaSet

ApiFinishStartAgents ==
    /\ pc = "api"
    /\ rpc = "stabilising"
    /\ WaitOver
    /\ \E failing \in SUBSET AllIPs(Stabilised) :
         LET managed == StartAgents(Stabilised, startAll, failing)
         IN /\ result' = Managed("StartAgents", startAll, managed)
            /\ trace' = trace \o managed.calls
    /\ replicaSet' = Stabilised
    /\ rpc' = "idle"
    /\ UNCHANGED <<pc, pre, attempt, attemptErr, startAll, manualAgentControl, restart,
                   allowDowngrade, backup, controller, cmdErr>>

NextRestorer ==
    \/ ApiCheckSecondaryControllerNodes
    \/ ApiStopAgents
    \/ ApiStartAgents
    \/ StabiliseAttempt
    \/ ApiFinishStartAgents

SpecRestorer == InitRestorer /\ [][NextRestorer]_vars

\* A Restorer built over a replica set of MaxNodes members that passes
\* CheckDatabaseState, as the one of a command run that went on to restore.
InitWait ==
    /\ InitRestorer
    /\ Len(replicaSet.Members) = MaxNodes
    /\ CheckDatabaseState(replicaSet) = Nil

\* StartAgents runs on one goroutine: the step that can be taken next is
\* taken (the sleeps between the attempts of the wait are finite). During
\* the wait the database answers as in SpecRestorer.
SpecRestorerFair ==
    /\ InitWait
    /\ [][NextRestorer]_vars
    /\ WF_vars(NextRestorer)

(***************************************************************************)
(* The restore command: restoreCommand.Run and what it calls.              *)
(***************************************************************************)
\* As prompt, but every character read counts as a yes.
promptAlwaysYes(input) ==
    IF input.err # Nil THEN [proceed |-> FALSE, err |-> input.err]
    ELSE [proceed |-> TRUE, err |-> Nil]

userAbortedError == Errorf("userAborted", "aborted")

\* Defined like IsUserAbortedError but for the answer, which is always no.
IsUserAbortedErrorNever(err) == FALSE

IsUserAbortedError(err) == err.kind = "userAborted"

\* What readOneCharFunc can return: a character, or an error.
ReadInputs ==
    {[char |-> c, err |-> Nil] : c \in {"y", "n", "\n", "x"}}
        \cup {[char |-> "", err |-> Errorf("read", "EOF")]}

ToLower(c) == IF c = "Y" THEN "y" ELSE IF c = "N" THEN "n" ELSE c

\* The closure prompt of UserConfirmYes, given what was read.
prompt(input) ==
    IF input.err # Nil THEN [proceed |-> FALSE, err |-> input.err]
    ELSE IF ToLower(input.char) = "y" THEN [proceed |-> TRUE, err |-> Nil]
    ELSE IF ToLower(input.char) \in {"n", "\n", "\r"}
         THEN [proceed |-> TRUE, err |-> userAbortedError]
    ELSE [proceed |-> FALSE, err |-> Nil]

\* A call of UserConfirmYes that has returned: the question notified before
\* it, the last character it read and whether it returned nil.
ConfirmEvent(question, input) == Event("ui", question, input.char, prompt(input).err = Nil)

\* Defined like Deferred but for the Close of the database.
DeferredBackupOnly(backupOpened) ==
    IF backupOpened THEN <<Event("backup", "Close", "", TRUE)>> ELSE <<>>

\* The deferred calls of Run, last deferred first.
Deferred(backupOpened) ==
    (IF backupOpened THEN <<Event("backup", "Close", "", TRUE)>> ELSE <<>>)
        \o <<Event("db", "Close", "", TRUE)>>

\* The backups and the controller of a command run: the controller is at
\* 2.7.6, the backup at the same version, at another build of it, below it
\* or above it, of the same controller model or of another.
RunVersions ==
    {v \in Versions : v.Tag = "" /\ (v.Build = 0 \/ (v.Minor = 7 /\ v.Patch = 6))}

RunBackups ==
    {b \in BackupMetadatas :
        /\ b.JujuVersion \in RunVersions
        /\ b.Series = "disco" /\ b.HANodes = 1 /\ b.ModelCount = MaxModelCount}

RunControllers ==
    {c \in ControllerInfos :
        /\ c.JujuVersion = [Major |-> 2, Minor |-> 7, Tag |-> "", Patch |-> 6, Build |-> 0]
        /\ c.ControllerModelUUID = "how-bizarre" /\ c.Series = "disco" /\ c.HANodes = 1}

\* Defined like AnyError but for the answer, which is always no.
AnyErrorNever(results) == FALSE

AnyError(results) == \E ip \in DOMAIN results : results[ip] # Nil

manipulateAgentsError ==
    Errorf("agents", "'juju-restore' could not manipulate all necessary agents: "
                        \o "controllers' agents cannot be managed")

connectionError ==
    Errorf("connections", "'juju-restore' could not connect to all controller machines: "
                             \o "controllers' agents cannot be managed")

InitRun ==
    /\ pc = "start"
    /\ rpc = "idle"
    /\ replicaSet = NoReplicaSet
    /\ pre = NoReplicaSet
    /\ attempt = 0
    /\ attemptErr = Nil
    /\ startAll = FALSE
    /\ trace = <<>>
    /\ result = NoResult
    /\ manualAgentControl \in BOOLEAN
    /\ restart \in BOOLEAN
    /\ allowDowngrade \in BOOLEAN
    /\ backup = Failed("none")
    /\ controller = Failed("none")
    /\ cmdErr = Nil

\* Run up to the deferred database.Close(): the loggers, the credentials and
\* the connection.
CmdConnect ==
    /\ pc = "start"
    /\ \/ /\ cmdErr' = Errorf("loggers", "unknown severity level")
          /\ pc' = "done"
       \/ /\ cmdErr' = Annotate(Errorf("creds", "loading those creds"), "loading credentials")
          /\ pc' = "done"
       \/ /\ cmdErr' = Errorf("connect", "no reachable servers")
          /\ pc' = "done"
       \/ /\ pc' = "connected"
          /\ UNCHANGED cmdErr
    /\ UNCHANGED <<rpc, replicaSet, pre, attempt, attemptErr, startAll, trace, result,
                   manualAgentControl, restart, allowDowngrade, backup, controller>>

CmdOpenBackup ==
    /\ pc = "connected"
    /\ \/ /\ cmdErr' = Annotate(Errorf("open", "not a backup file"),
                                "unpacking backup file \"backup.tar.gz\" under \"/tmp\"")
          /\ pc' = "done"
          /\ trace' = trace \o Deferred(FALSE)
       \/ /\ pc' = "opened"
          /\ UNCHANGED <<cmdErr, trace>>
    /\ UNCHANGED <<rpc, replicaSet, pre, attempt, attemptErr, startAll, result,
                   manualAgentControl, restart, allowDowngrade, backup, controller>>

\* core.NewRestorer and the branch on c.restart.
CmdNewRestorer ==
    /\ pc = "opened"
    /\ \/ /\ cmdErr' = Annotate(Failed("replSetGetStatus").err, "getting database replica set")
          /\ pc' = "done"
          /\ trace' = Append(trace, Event("db", "ReplicaSet", "", FALSE)) \o Deferred(TRUE)
          /\ UNCHANGED replicaSet
       \/ \E rs \in NodeReplicaSets \cup SickReplicaSets :
            /\ replicaSet' = rs
            /\ pc' = IF restart THEN "postChecks" ELSE "preChecks"
            /\ trace' = Append(trace, Event("db", "ReplicaSet", "", TRUE))
            /\ UNCHANGED cmdErr
    /\ UNCHANGED <<rpc, pre, attempt, attemptErr, startAll, result,
                   manualAgentControl, restart, allowDowngrade, backup, controller>>

\* Where Run goes when it returns err with both deferred calls pending.
Return(err, calls) ==
    /\ cmdErr' = err
    /\ pc' = "done"
    /\ trace' = (trace \o calls) \o Deferred(TRUE)

\* Where Run goes on: no error yet.
GoOn(next, calls) ==
    /\ pc' = next
    /\ trace' = trace \o calls
    /\ UNCHANGED cmdErr

\* runPreChecks: the health check.
CmdCheckDatabaseState ==
    /\ pc = "preChecks"
    /\ LET err == CheckDatabaseState(replicaSet)
           call == <<Event("restorer", "CheckDatabaseState", "", err = Nil)>>
       IN IF err # Nil THEN Return(err, call) ELSE GoOn("checkRestorable", call)
    /\ UNCHANGED <<rpc, replicaSet, pre, attempt, attemptErr, startAll, result,
                   manualAgentControl, restart, allowDowngrade, backup, controller>>

\* runPreChecks: the compatibility check, and the branch on IsHA and on
\* manualAgentControl behind it. The backup file and the database answer here
\* for the first time. CheckRestorable is handed the allow-downgrade option
\* of the command line (README, "Restoring to a different version").
CmdCheckRestorable ==
    /\ pc = "checkRestorable"
    /\ \E metadata \in {Returned(b) : b \in RunBackups} \cup {Failed("reading metadata.json")} :
       \E info \in {Returned(c) : c \in RunControllers}
                     \cup {Failed("querying the controller model")} :
         LET r == CheckRestorable(metadata, info, allowDowngrade)
             calls == <<Event("backup", "Metadata", "", metadata.err = Nil)>>
                      \o (IF metadata.err = Nil
                          THEN <<Event("db", "ControllerInfo", "", info.err = Nil)>>
                          ELSE <<>>)
                      \o <<Event("restorer", "CheckRestorable", "", r.err = Nil)>>
         IN /\ backup' = metadata
            /\ controller' = IF metadata.err = Nil THEN info ELSE controller
            /\ result' = [op |-> "CheckRestorable", err |-> r.err,
                          value |-> [allowDowngrade |-> allowDowngrade, result |-> r.result]]
            /\ IF r.err # Nil THEN Return(Annotate(r.err, "precheck"), calls)
               ELSE IF IsHA(replicaSet) /\ ~manualAgentControl
                    THEN GoOn("releasePrompt", calls)
                    ELSE GoOn("confirmPrompt", calls)
    /\ UNCHANGED <<rpc, replicaSet, pre, attempt, attemptErr, startAll,
                   manualAgentControl, restart, allowDowngrade>>

\* runPreChecks: one read of the UserConfirmYes that asks to release the
\* agents. An invalid answer is asked again; an abort turns the run to manual
\* agent control.
CmdReleasePrompt ==
    /\ pc = "releasePrompt"
    /\ \E input \in ReadInputs :
         LET p == prompt(input)
         IN \/ /\ p.err = Nil /\ ~p.proceed
               /\ UNCHANGED <<pc, trace, cmdErr, manualAgentControl>>
            \/ /\ p.err = Nil /\ p.proceed
               /\ GoOn("pingSecondaries", <<ConfirmEvent("releaseAgentsControl", input)>>)
               /\ UNCHANGED manualAgentControl
            \/ /\ p.err # Nil /\ IsUserAbortedError(p.err)
               /\ manualAgentControl' = TRUE
               /\ GoOn("confirmPrompt", <<ConfirmEvent("releaseAgentsControl", input)>>)
            \/ /\ p.err # Nil /\ ~IsUserAbortedError(p.err)
               /\ Return(Annotate(p.err, "releasing controller over agents"),
                         <<ConfirmEvent("releaseAgentsControl", input)>>)
               /\ UNCHANGED manualAgentControl
    /\ UNCHANGED <<rpc, replicaSet, pre, attempt, attemptErr, startAll, result,
                   restart, allowDowngrade, backup, controller>>

\* runPreChecks: the connectivity check of automatic agent control.
CmdCheckSecondaryControllerNodes ==
    /\ pc = "pingSecondaries"
    /\ \E failing \in SUBSET AllIPs(replicaSet) :
         LET reachable == CheckSecondaryControllerNodes(replicaSet, failing)
             calls == reachable.calls
                      \o <<Event("restorer", "CheckSecondaryControllerNodes", "",
                                 ~AnyError(reachable.result))>>
         IN /\ result' = [op |-> "CheckSecondaryControllerNodes", err |-> Nil,
                          value |-> reachable.result]
            /\ IF AnyError(reachable.result) THEN Return(connectionError, calls)
               ELSE GoOn("confirmPrompt", calls)
    /\ UNCHANGED <<rpc, replicaSet, pre, attempt, attemptErr, startAll,
                   manualAgentControl, restart, allowDowngrade, backup, controller>>

\* runPreChecks: one read of the final UserConfirmYes. An invalid answer is
\* asked again.
CmdConfirmPrompt ==
    /\ pc = "confirmPrompt"
    /\ \E input \in ReadInputs :
         LET p == prompt(input)
         IN \/ /\ p.err = Nil /\ ~p.proceed
               /\ UNCHANGED <<pc, trace, cmdErr>>
            \/ /\ p.err = Nil /\ p.proceed
               /\ GoOn("stopAgents", <<ConfirmEvent("preChecksCompleted", input)>>)
            \/ /\ p.err # Nil
               /\ Return(Annotate(p.err, "restore operation"), <<ConfirmEvent("preChecksCompleted", input)>>)
    /\ UNCHANGED <<rpc, replicaSet, pre, attempt, attemptErr, startAll, result,
                   manualAgentControl, restart, allowDowngrade, backup, controller>>

\* Where Run goes when a nil ControllerNode is called: the deferred calls run
\* and the process dies of the panic.
Crash(calls) ==
    /\ cmdErr' = Panic
    /\ pc' = "panicked"
    /\ trace' = (trace \o calls) \o Deferred(TRUE)

\* restore: StopAgents through manipulateAgents.
CmdStopAgents ==
    /\ pc = "stopAgents"
    /\ \E failing \in SUBSET AllIPs(replicaSet) :
         LET managed == StopAgents(replicaSet, ~manualAgentControl, failing)
             failed == managed.panicked \/ AnyError(managed.result)
             calls == managed.calls \o <<Event("restorer", "StopAgents", "", ~failed)>>
         IN /\ result' = Managed("StopAgents", ~manualAgentControl, managed)
            /\ IF managed.panicked THEN Crash(calls)
               ELSE IF failed THEN Return(manipulateAgentsError, calls)
               ELSE GoOn("restore", calls)
    /\ UNCHANGED <<rpc, replicaSet, pre, attempt, attemptErr, startAll,
                   manualAgentControl, restart, allowDowngrade, backup, controller>>

NodeOfIP(rs, ip) ==
    ControllerNodeForReplicaSetMember(
        rs.Members[CHOOSE i \in 1..Len(rs.Members) : IPOfName(rs.Members[i].Name) = ip])

HostIndex(ip) == CHOOSE i \in HostIndexes : Host(i) = ip

\* What the update script prints on a node where UpdateAgentVersion fails:
\* nothing when the runner itself failed.
UpdateOutputs == {"", "no tools directory, can't downgrade", "disk 100% full"}

ScriptOutputError(output) ==
    Errorf("machine", "update agent script shouldn't have returned any output but got "
                         \o output)

\* Machine.UpdateAgentVersion on the node at ip.
UpdateAgentVersion(ip, failing, output) ==
    IF ip \notin failing THEN Nil
    ELSE IF output = "" THEN Operation("UpdateAgentVersion", ip, failing)
    ELSE ScriptOutputError(output)

\* The error Restore's operation returns for node n.
UpdateError(n, err) == Annotate(err, "updating " \o NodeString(n))

\* fmt.Sprintf(format) with no operand, on one line of the joined messages: a
\* verb in the line comes out as %!verb(MISSING). Of the texts of
\* UpdateOutputs only "disk 100% full" holds one, "% f".
Sprintf(format) ==
    LET nodes == {[ip |-> Host(i), jujuID |-> id] :
                    i \in HostIndexes, id \in {ToString(k - 1) : k \in HostIndexes}}
        holds == {n \in nodes : format = UpdateError(n, ScriptOutputError("disk 100% full")).msg}
    IN IF holds = {} THEN format
       ELSE UpdateError(CHOOSE n \in holds : TRUE,
                        ScriptOutputError("disk 100%!f(MISSING)ull")).msg

\* The orders in which the keys of a map can come out of a range loop.
Orders(keys) ==
    {order \in [1..Cardinality(keys) -> keys] :
        \A i, j \in 1..Cardinality(keys) : order[i] = order[j] => i = j}

\* collectMachineErrors: the messages of the errors of results, taken in the
\* order the map yields them, sorted, joined and handed to errors.Errorf as
\* its format. A message starts with "updating machine <id>", so
\* sort.Strings orders the messages by machine id, which grows with the host
\* index.
collectMachineErrors(results, order) ==
    LET failed == SelectSeq(order, LAMBDA ip : results[ip] # Nil)
        sorted == SortSeq(failed, LAMBDA a, b : HostIndex(a) < HostIndex(b))
        messages == [k \in 1..Len(sorted) |-> Sprintf(results[sorted[k]].msg)]
    IN IF messages = <<>> THEN Nil
       ELSE Errorf("machines", JoinStrings(messages, "\n"))

DumpDirectory == "dump-directory"

\* Defined like Restore but for the error of RestoreFromDump, which is
\* dropped: the agent versions are updated all the same.
RestoreIgnoringDumpError(rs, info, metadata, dumpErr, failing, order, output) ==
    LET asked == <<Event("db", "ControllerInfo", "", info.err = Nil)>>
        read == asked \o <<Event("backup", "Metadata", "", metadata.err = Nil)>>
        dumped == read \o <<Event("backup", "DumpDirectory", "", TRUE),
                            Event("db", "RestoreFromDump", DumpDirectory, dumpErr = Nil)>>
    IN IF info.err # Nil
       THEN [err |-> Annotate(info.err, "getting controller info"),
             calls |-> asked, panicked |-> FALSE, version |-> ""]
       ELSE IF metadata.err # Nil
       THEN [err |-> Annotate(metadata.err, "getting backup metadata"),
             calls |-> read, panicked |-> FALSE, version |-> ""]
       ELSE IF info.value.JujuVersion # metadata.value.JujuVersion
       THEN LET managed == manageAgents(rs, TRUE, TRUE, "UpdateAgentVersion", failing)
            IN [err |-> Nil, calls |-> dumped \o managed.calls,
                panicked |-> managed.panicked,
                version |-> VersionString(metadata.value.JujuVersion)]
       ELSE [err |-> Nil, calls |-> dumped, panicked |-> FALSE, version |-> ""]

\* Restore, given what ControllerInfo, Metadata and RestoreFromDump answer,
\* the nodes on which UpdateAgentVersion fails and what the script prints
\* there, and the order in which the result map is ranged over. version is
\* the version handed to UpdateAgentVersion, "" if it was not called.
Restore(rs, info, metadata, dumpErr, failing, order, output) ==
    LET asked == <<Event("db", "ControllerInfo", "", info.err = Nil)>>
        read == asked \o <<Event("backup", "Metadata", "", metadata.err = Nil)>>
        dumped == read \o <<Event("backup", "DumpDirectory", "", TRUE),
                            Event("db", "RestoreFromDump", DumpDirectory, dumpErr = Nil)>>
    IN IF info.err # Nil
       THEN [err |-> Annotate(info.err, "getting controller info"),
             calls |-> asked, panicked |-> FALSE, version |-> ""]
       ELSE IF metadata.err # Nil
       THEN [err |-> Annotate(metadata.err, "getting backup metadata"),
             calls |-> read, panicked |-> FALSE, version |-> ""]
       ELSE IF dumpErr # Nil
       THEN [err |-> Annotate(dumpErr, "restoring dump from " \o Quote(DumpDirectory)),
             calls |-> Append(dumped, Event("backup", "DumpDirectory", "", TRUE)),
             panicked |-> FALSE, version |-> ""]
       ELSE IF info.value.JujuVersion # metadata.value.JujuVersion
       THEN LET managed == manageAgents(rs, TRUE, TRUE, "UpdateAgentVersion", failing)
                results == [ip \in DOMAIN managed.result |->
                              UpdateError(NodeOfIP(rs, ip),
                                          UpdateAgentVersion(ip, failing, output))]
            IN [err |-> Annotate(collectMachineErrors(results,
                                    SelectSeq(order, LAMBDA ip : ip \in DOMAIN results)),
                                 "problems updating controllers to version "
                                    \o Quote(VersionString(metadata.value.JujuVersion))),
                calls |-> dumped \o managed.calls, panicked |-> managed.panicked,
                version |-> VersionString(metadata.value.JujuVersion)]
       ELSE [err |-> Nil, calls |-> dumped, panicked |-> FALSE, version |-> ""]

\* restore: Restorer.Restore. The database and the backup file answer as
\* before, or with an error.
CmdRestore ==
    /\ pc = "restore"
    /\ \E info \in {controller, Failed("querying the controller model")} :
       \E metadata \in {backup, Failed("reading metadata.json")} :
       \E dumpErr \in {Nil, Errorf("dump", "mongorestore failed")} :
       \E failing \in SUBSET AllIPs(replicaSet) :
       \E order \in Orders(AllIPs(replicaSet)) :
       \E output \in UpdateOutputs :
         LET r == Restore(replicaSet, info, metadata, dumpErr, failing, order, output)
             calls == r.calls
                      \o <<Event("restorer", "Restore", "", ~r.panicked /\ r.err = Nil)>>
         IN /\ result' = [op |-> "Restore", err |-> IF r.panicked THEN Panic ELSE r.err,
                          value |-> [version |-> r.version]]
            /\ IF r.panicked THEN Crash(calls)
               ELSE IF r.err # Nil THEN Return(r.err, calls)
               ELSE GoOn("postChecks", calls)
    /\ UNCHANGED <<rpc, replicaSet, pre, attempt, attemptErr, startAll,
                   manualAgentControl, restart, allowDowngrade, backup, controller>>

\* runPostChecks: StartAgents up to the wait for the replica set.
CmdStartAgents ==
    /\ pc = "postChecks"
    /\ BeginStartAgents(~manualAgentControl)
    /\ UNCHANGED <<pc, trace, result, cmdErr>>

\* runPostChecks: StartAgents after the wait, through manipulateAgents, and
\* the return of Run.
CmdFinishStartAgents ==
    /\ pc = "postChecks"
    /\ rpc = "stabilising"
    /\ WaitOver
    /\ \E failing \in SUBSET AllIPs(Stabilised) :
         LET managed == StartAgents(Stabilised, startAll, failing)
             failed == managed.panicked \/ AnyError(managed.result)
             calls == managed.calls \o <<Event("restorer", "StartAgents", "", ~failed)>>
         IN /\ result' = Managed("StartAgents", startAll, managed)
            /\ IF managed.panicked THEN Crash(calls)
               ELSE IF failed THEN Return(manipulateAgentsError, calls)
               ELSE Return(Nil, calls)
    /\ replicaSet' = Stabilised
    /\ rpc' = "idle"
    /\ UNCHANGED <<pre, attempt, attemptErr, startAll, manualAgentControl, restart,
                   allowDowngrade, backup, controller>>

Next ==
    \/ CmdConnect
    \/ CmdOpenBackup
    \/ CmdNewRestorer
    \/ CmdCheckDatabaseState
    \/ CmdCheckRestorable
    \/ CmdReleasePrompt
    \/ CmdCheckSecondaryControllerNodes
    \/ CmdConfirmPrompt
    \/ CmdStopAgents
    \/ CmdRestore
    \/ CmdStartAgents
    \/ StabiliseAttempt
    \/ CmdFinishStartAgents

Spec == InitRun /\ [][Next]_vars

(***************************************************************************)
(* SpecDump: database.RestoreFromDump applied to a dump directory and a    *)
(* log file path, with either flag, whatever binary is found in PATH,      *)
(* whatever the dump tool prints and however it exits, and whatever calls  *)
(* of the operating system fail.                                           *)
(***************************************************************************)
restoreBinary == "mongorestore"

snapRestoreBinary == "juju-db.mongorestore"

homeSnapDir == "snap/juju-db/common"

\* The value of --restore-log when the flag is not given.
LogFile == "restore.log"

\* The connection details the arguments of the dump tool are built from.
DialInfo == [Hostname |-> "localhost", Port |-> "37017", Username |-> "machine-0",
             Password |-> "secret"]

\* A path with no file or directory at it.
Absent == "<absent>"

\* The files RestoreFromDump works on, before it is called: the dump
\* directory, nothing yet under $HOME/snap and the log file with what is at
\* its path.
Files(logContent) ==
    [path \in {LogFile, DumpDirectory, "/home/ubuntu/" \o homeSnapDir \o "/" \o DumpDirectory} |->
        IF path = LogFile THEN logContent
        ELSE IF path = DumpDirectory THEN "dump" ELSE Absent]

LogContents == {Absent, "output of an earlier restore"}

\* What the dump tool writes to its standard output and standard error.
ToolOutputs == {"", "restoring juju.models\ndone", "Failed: juju.models: error restoring"}

\* What RestoreFromDump meets: the binary exec.LookPath finds ("" if none),
\* the call of moveToHomeSnap that fails ("" if none), whether the tool exits
\* with an error, what it prints, whether ioutil.WriteFile and os.RemoveAll
\* fail.
DumpEnvs ==
    [binary : {snapRestoreBinary, restoreBinary, ""},
     moveErr : {"", "UserHomeDir", "MkdirAll", "Rename"},
     exitErr : BOOLEAN, output : ToolOutputs, writeErr : BOOLEAN, removeErr : BOOLEAN]

CommonRestoreArgs ==
    <<"-vvvvv", "--drop", "--writeConcern=majority",
      "--host", DialInfo.Hostname, "--port", DialInfo.Port,
      "--authenticationDatabase=admin",
      "--username", DialInfo.Username, "--password", DialInfo.Password,
      "--ssl", "--sslAllowInvalidCertificates", "--stopOnError",
      "--maintainInsertionOrder">>

buildRestoreArgs(dumpPath, includeStatusHistory) ==
    CommonRestoreArgs \o <<"--nsExclude=logs.*">>
        \o (IF ~includeStatusHistory THEN <<"--nsExclude=juju.statuseshistory">> ELSE <<>>)
        \o <<dumpPath>>

buildControllerRestoreArgs(dumpPath) ==
    CommonRestoreArgs
        \o <<"--nsFrom=juju.*", "--nsTo=jujucontroller.*",
             "--nsInclude=juju.controllers", "--nsInclude=juju.users",
             "--nsInclude=juju.controllerusers", "--nsInclude=juju.clouds",
             "--nsInclude=juju.cloudCredentials", "--nsInclude=juju.globalSettings",
             "--nsInclude=juju.permissions", "--nsInclude=juju.externalControllers",
             "--nsInclude=juju.secretBackends">>
        \o <<dumpPath>>

getRestoreBinary(env) ==
    IF env.binary = "" THEN
        [binary |-> "", isSnap |-> FALSE,
         err |-> Errorf("db", "couldn't find " \o snapRestoreBinary \o " or "
                              \o restoreBinary \o " in PATH (/usr/bin)")]
    ELSE [binary |-> env.binary, isSnap |-> env.binary = snapRestoreBinary, err |-> Nil]

moveToHomeSnap(dumpDir, files, env) ==
    LET snapDumpDir == "/home/ubuntu/" \o homeSnapDir \o "/" \o dumpDir
    IN IF env.moveErr = "UserHomeDir" THEN
           [dir |-> "", files |-> files, err |-> Errorf("os", "$HOME is not defined")]
       ELSE IF env.moveErr = "MkdirAll" THEN
           [dir |-> "", files |-> files,
            err |-> Annotate(Errorf("os", "permission denied"), "creating snap dump parent")]
       ELSE IF env.moveErr = "Rename" THEN
           [dir |-> "", files |-> files,
            err |-> Annotate(Errorf("os", "invalid cross-device link"),
                             "moving dump to snap dump dir")]
       ELSE [dir |-> snapDumpDir,
             files |-> [files EXCEPT ![snapDumpDir] = files[dumpDir], ![dumpDir] = Absent],
             err |-> Nil]

\* RestoreFromDump: the error it returns, the files it leaves and the calls
\* it makes (the command it runs, what it hands to the debug log). The
\* deferred os.RemoveAll runs on every return after the dump was moved.
RestoreFromDump(dumpDir, logFile, includeStatusHistory, copyController, files, env) ==
    LET found == getRestoreBinary(env)
        moved == moveToHomeSnap(dumpDir, files, env)
        dir == IF found.isSnap THEN moved.dir ELSE dumpDir
        args == IF copyController THEN buildControllerRestoreArgs(dir)
                ELSE buildRestoreArgs(dir, includeStatusHistory)
        run == Event("exec", found.binary, JoinStrings(args, " "), ~env.exitErr)
        debug == Event("logger", "Debugf", found.binary \o " output:\n" \o env.output, TRUE)
        before == IF found.isSnap THEN moved.files ELSE files
        written == [before EXCEPT ![logFile] = env.output]
        Removed(fs) == IF found.isSnap /\ ~env.removeErr THEN [fs EXCEPT ![dir] = Absent]
                       ELSE fs
    IN IF found.err # Nil THEN [err |-> found.err, files |-> files, calls |-> <<>>]
       ELSE IF found.isSnap /\ moved.err # Nil THEN
           [err |-> moved.err, files |-> files, calls |-> <<>>]
       ELSE IF env.exitErr THEN
           [err |-> Annotate(Errorf("exec", "exit status 1"), "running " \o found.binary),
            files |-> Removed(before), calls |-> <<run, debug>>]
       ELSE IF env.writeErr THEN
           [err |-> Annotate(Errorf("os", "permission denied"), "writing output to " \o logFile),
            files |-> Removed(before), calls |-> <<run, debug>>]
       ELSE [err |-> Nil, files |-> Removed(written), calls |-> <<run>>]

InitDump ==
    /\ InitCommon
    /\ pc = "db"
    /\ replicaSet = NoReplicaSet
    /\ backup = Failed("none")
    /\ controller = Failed("none")

\* One call of RestoreFromDump; result keeps what it met, the files before
\* the call and the files after it.
ApiRestoreFromDump ==
    /\ pc = "db"
    /\ result = NoResult
    /\ \E includeStatusHistory \in BOOLEAN : \E copyController \in BOOLEAN :
       \E logContent \in LogContents : \E env \in DumpEnvs :
         LET files == Files(logContent)
             r == RestoreFromDump(DumpDirectory, LogFile, includeStatusHistory,
                                  copyController, files, env)
         IN /\ result' = [op |-> "RestoreFromDump", err |-> r.err,
                          value |-> [env |-> env, before |-> files, after |-> r.files]]
            /\ trace' = r.calls
    /\ UNCHANGED <<pc, rpc, replicaSet, pre, attempt, attemptErr, startAll,
                   manualAgentControl, restart, allowDowngrade, backup, controller, cmdErr>>

NextDump == ApiRestoreFromDump

SpecDump == InitDump /\ [][NextDump]_vars

(***************************************************************************)
(* SpecBackup: backup.Open applied to a backup path and a tempRoot, then   *)
(* Close applied to the reader Open returned. A path is the sequence of    *)
(* its components and the file system is the set of the paths that exist.  *)
(***************************************************************************)
topLevelDir == "juju-backup"

rootTarFile == "root.tar"

TempRoots == {<<"tmp">>, <<"var", "tmp">>, <<"home", "ubuntu">>}

\* What can be under tempRoot before Open is called.
Existing(tempRoot) == {{}, {tempRoot \o <<"juju-restore-old">>, tempRoot \o <<"notes.txt">>}}

IsPrefix(p, q) == Len(p) <= Len(q) /\ SubSeq(q, 1, Len(p)) = p

\* A path as the operating system writes it.
PathString(p) == "/" \o JoinStrings(p, "/")

\* The entries of the backup archives handed to Open, in the order they are
\* in the archive: a standard backup, one without root.tar, an empty one.
OuterArchives ==
    {<< <<topLevelDir>>, <<topLevelDir, "metadata.json">>, <<topLevelDir, rootTarFile>> >>,
     << <<topLevelDir>>, <<topLevelDir, "metadata.json">> >>,
     << >>}

\* The entries of root.tar.
RootArchives ==
    {<< <<"dump">>, <<"dump", "juju">>, <<"dump", "juju", "models.bson">> >>,
     << <<"home">> >>}

\* What Open meets: whether ioutil.TempDir fails, whether the backup file
\* can be opened and is a gzip stream, the entries of the two archives, the
\* number of entries after which tar.UntarFiles fails (the number of
\* entries if it does not), whether os.RemoveAll fails.
OpenEnvs ==
    {e \in [tempDirErr : BOOLEAN, openErr : BOOLEAN, gzipErr : BOOLEAN,
            outer : OuterArchives, outerDone : 0..3,
            root : RootArchives, rootDone : 0..3, removeErr : BOOLEAN] :
        /\ e.outerDone <= Len(e.outer)
        /\ e.rootDone <= Len(e.root)}

\* tar.UntarFiles: the first done entries are written under dest; it fails
\* unless all entries are done.
UntarFiles(entries, done, dest, files) ==
    [err |-> IF done < Len(entries) THEN Errorf("tar", "unexpected EOF") ELSE Nil,
     files |-> files \cup {dest \o entries[k] : k \in 1..done}]

\* extractFiles of the backup file: os.Open, gzip.NewReader, tar.UntarFiles.
extractBackup(dest, files, env) ==
    IF env.openErr THEN
        [err |-> Errorf("os", "open backup.tar.gz: no such file or directory"), files |-> files]
    ELSE IF env.gzipErr THEN [err |-> Errorf("gzip", "invalid header"), files |-> files]
    ELSE UntarFiles(env.outer, env.outerDone, dest, files)

\* extractFiles of root.tar, which exists if the backup file held it and
\* was extracted that far.
extractRoot(path, dest, files, env) ==
    IF path \notin files THEN
        [err |-> Errorf("os", "open " \o PathString(path) \o ": no such file or directory"),
         files |-> files]
    ELSE UntarFiles(env.root, env.rootDone, dest, files)

\* Defined like RemoveAll but for removing anything.
RemoveNothing(dir, files, fails) == files

\* os.RemoveAll: dir and everything under it is removed, unless it fails;
\* a failed removal is modelled as removing nothing.
RemoveAll(dir, files, fails) == IF fails THEN files ELSE {f \in files : ~IsPrefix(dir, f)}

\* Open: the error it returns, the directory of the reader it returns, the
\* files it leaves and whether it logged "couldn't remove temp dir".
Open(tempRoot, files, env) ==
    LET destDir == tempRoot \o <<"juju-restore012345">>
        created == files \cup {destDir}
        outer == extractBackup(destDir, created, env)
        extractedDir == destDir \o <<topLevelDir>>
        root == extractRoot(extractedDir \o <<rootTarFile>>, extractedDir, outer.files, env)
        Failing(err, fs) ==
            [err |-> err, dir |-> <<>>, files |-> RemoveAll(destDir, fs, env.removeErr),
             logged |-> env.removeErr]
    IN IF env.tempDirErr THEN
           [err |-> Annotate(Errorf("tempdir", "permission denied"),
                             "creating temp directory in " \o Quote(PathString(tempRoot))),
            dir |-> <<>>, files |-> files, logged |-> FALSE]
       ELSE IF outer.err # Nil THEN
           Failing(Annotate(outer.err, "extracting backup to " \o Quote(PathString(destDir))),
                   outer.files)
       ELSE IF root.err # Nil THEN
           Failing(Annotate(root.err, "extracting root.tar in " \o Quote(PathString(destDir))),
                   root.files)
       ELSE [err |-> Nil, dir |-> destDir, files |-> root.files, logged |-> FALSE]

\* expandedBackup.Close: the error of os.RemoveAll(b.dir).
Close(dir, files, fails) ==
    [err |-> IF fails THEN Errorf("os", "unlinkat: permission denied") ELSE Nil,
     files |-> RemoveAll(dir, files, fails)]

InitBackup ==
    /\ InitCommon
    /\ pc = "backup"
    /\ replicaSet = NoReplicaSet
    /\ backup = Failed("none")
    /\ controller = Failed("none")

\* One call of Open; result keeps what it returned, tempRoot, the files
\* before the call and the files after it.
ApiOpen ==
    /\ pc = "backup"
    /\ result = NoResult
    /\ \E tempRoot \in TempRoots : \E before \in Existing(tempRoot) : \E env \in OpenEnvs :
         LET r == Open(tempRoot, before, env)
         IN /\ result' = [op |-> "Open", err |-> r.err,
                          value |-> [tempRoot |-> tempRoot, before |-> before, dir |-> r.dir,
                                     files |-> r.files, logged |-> r.logged]]
            /\ trace' = <<Event("backup", "Open", "", r.err = Nil)>>
    /\ UNCHANGED <<pc, rpc, replicaSet, pre, attempt, attemptErr, startAll,
                   manualAgentControl, restart, allowDowngrade, backup, controller, cmdErr>>

\* Close on the reader a successful Open returned.
ApiClose ==
    /\ pc = "backup"
    /\ result.op = "Open"
    /\ result.err = Nil
    /\ \E fails \in BOOLEAN :
         LET r == Close(result.value.dir, result.value.files, fails)
         IN /\ result' = [op |-> "Close", err |-> r.err,
                          value |-> [result.value EXCEPT !.files = r.files]]
            /\ trace' = Append(trace, Event("backup", "Close", "", r.err = Nil))
    /\ UNCHANGED <<pc, rpc, replicaSet, pre, attempt, attemptErr, startAll,
                   manualAgentControl, restart, allowDowngrade, backup, controller, cmdErr>>

NextBackup ==
    \/ ApiOpen
    \/ ApiClose

SpecBackup == InitBackup /\ [][NextBackup]_vars

(***************************************************************************)
(* SpecMetadata: expandedBackup.Metadata applied to an extracted backup:   *)
(* its metadata.json, the logs directory of its dump and the dumps of the  *)
(* models, machines and controllerNodes collections. A dump file is the    *)
(* sequence of its bytes. No size in these files reaches 2^31, so the      *)
(* width of int makes no difference here and is taken as 64.               *)
(***************************************************************************)
MaxDocs == 2        \* documents of a models.bson

jobManageModel == 2

\* size-4 is computed on a uint32: below 4 it wraps to more than 2^32 - 5,
\* which is more than the bytes of any file here, as is a size of 2^31 or
\* more; the largest integer stands for both.
Wrapped == 2147483647

\* binary.Read(source, binary.LittleEndian, &size) of four bytes.
LittleEndian(b) == b[1] + 256 * b[2] + 65536 * b[3] + 16777216 * b[4]

\* The widths of int the program is built with.
IntSizes == {32, 64}

\* The panic of bytes.Buffer.Grow(n) when n is negative.
GrowPanic == Errorf("panic", "bytes.Buffer.Grow: negative count")

\* Whether int(size) is negative, size being the four bytes of a uint32: it
\* is where int has 32 bits and the top bit of size is set.
Negative(size, intSize) == intSize = 32 /\ size[4] >= 128

\* Defined like eachBsonDoc but for stopping after the first document.
eachBsonDocOnce(source, intSize) ==
    IF Len(source) = 0 THEN [err |-> Nil, docs |-> <<>>]
    ELSE [err |-> Nil, docs |-> <<source>>]

\* eachBsonDoc: the documents handed to the callback, in order, and the
\* error of the read that failed, if one did.
RECURSIVE eachBsonDoc(_, _)
eachBsonDoc(source, intSize) ==
    IF Len(source) = 0 THEN [err |-> Nil, docs |-> <<>>]
    ELSE IF Len(source) < 4 THEN [err |-> Errorf("io", "unexpected EOF"), docs |-> <<>>]
    ELSE IF Negative(SubSeq(source, 1, 4), intSize) THEN [err |-> GrowPanic, docs |-> <<>>]
    ELSE LET rest == IF source[4] >= 128 THEN Wrapped
                     ELSE IF LittleEndian(source) >= 4 THEN LittleEndian(source) - 4
                     ELSE Wrapped
         IN IF Len(source) - 4 < rest THEN [err |-> Errorf("io", "EOF"), docs |-> <<>>]
            ELSE LET more == eachBsonDoc(SubSeq(source, 5 + rest, Len(source)), intSize)
                 IN [err |-> more.err, docs |-> <<SubSeq(source, 1, 4 + rest)>> \o more.docs]

\* os.IsNotExist(errors.Cause(err)).
NotExist == Errorf("notexist", "no such file or directory")

\* A dump file: whether there is a file at the path, and its bytes.
NoFile == [exists |-> FALSE, bytes |-> <<>>]
File(bytes) == [exists |-> TRUE, bytes |-> bytes]

countBsonDocs(file, intSize) ==
    IF ~file.exists THEN [err |-> NotExist, value |-> 0]
    ELSE LET read == eachBsonDoc(file.bytes, intSize)
         IN IF read.err # Nil THEN [err |-> read.err, value |-> 0]
            ELSE [err |-> Nil, value |-> Len(read.docs)]

\* A stand-in for the BSON encoding of a machine document, the BSON library
\* being outside the repository: after the size come a byte for the model
\* UUID, a byte for each job and a closing 0.
UUIDByte(uuid) == IF uuid = "how-bizarre" THEN 1 ELSE 2
MachineDoc(uuid, jobs) == <<6 + Len(jobs), 0, 0, 0, UUIDByte(uuid)>> \o jobs \o <<0>>

\* bson.Unmarshal of a machine document.
Unmarshal(data) ==
    IF Len(data) < 6 \/ data[Len(data)] # 0 THEN
        [err |-> Errorf("bson", "Document is corrupted"), ModelUUID |-> "", Jobs |-> <<>>]
    ELSE [err |-> Nil,
          ModelUUID |-> IF data[5] = 1 THEN "how-bizarre" ELSE "alex the astronaut",
          Jobs |-> SubSeq(data, 6, Len(data) - 1)]

\* The callback of countHANodes on one document: 1 if it counts.
IsHANode(doc, modelUUID) ==
    IF doc.ModelUUID # modelUUID THEN 0
    ELSE IF \E k \in 1..Len(doc.Jobs) : doc.Jobs[k] = jobManageModel THEN 1 ELSE 0

RECURSIVE SumSeq(_)
SumSeq(q) == IF q = <<>> THEN 0 ELSE q[1] + SumSeq(Tail(q))

\* Defined like countHANodes but for looking at controllerNodes.bson.
countHANodesFromMachines(controllerNodes, machines, modelUUID, intSize) ==
    IF ~machines.exists THEN [err |-> NotExist, value |-> 0]
    ELSE LET read == eachBsonDoc(machines.bytes, intSize)
             docs == [k \in 1..Len(read.docs) |-> Unmarshal(read.docs[k])]
             bad == {k \in 1..Len(docs) : docs[k].err # Nil}
         IN IF bad # {} THEN
                LET first == CHOOSE k \in bad : \A j \in bad : k <= j
                IN [err |-> Annotate(docs[first].err, "reading machine doc " \o ToString(first)),
                    value |-> 0]
            ELSE IF read.err # Nil THEN [err |-> read.err, value |-> 0]
            ELSE [err |-> Nil,
                  value |-> SumSeq([k \in 1..Len(docs) |-> IsHANode(docs[k], modelUUID)])]

\* countHANodes: the documents of controllerNodes.bson if the file is there,
\* else the machines of the model that have the job.
countHANodes(controllerNodes, machines, modelUUID, intSize) ==
    LET nodes == countBsonDocs(controllerNodes, intSize)
    IN IF nodes.err = Nil THEN nodes
       ELSE IF nodes.err # NotExist THEN nodes
       ELSE countHANodesFromMachines(controllerNodes, machines, modelUUID, intSize)

BackupVersion == [Major |-> 2, Minor |-> 8, Tag |-> "beta", Patch |-> 1, Build |-> 1]

\* The metadata.json documents: the fields of flatMetadata and of
\* flatMetadataV0 that the reader uses; a field the document does not have
\* reads as the zero value.
MetadataDocs ==
    {d \in [FormatVersion : -1..3, ModelUUID : UUIDs \cup {""}, Environment : UUIDs \cup {""},
            HANodes : {0, 3}, Version : {BackupVersion}, Series : {"bionic"},
            Started : BackupDates, Hostname : {"juju-53ab97-0"}] :
        \/ d.ModelUUID = "how-bizarre" /\ d.Environment = ""
        \/ d.ModelUUID = "" /\ d.Environment = "how-bizarre"
        \/ d.ModelUUID = "how-bizarre" /\ d.Environment = "alex the astronaut"}

flatToBackupMetadata(source) ==
    [FormatVersion |-> source.FormatVersion, ControllerModelUUID |-> source.ModelUUID,
     JujuVersion |-> source.Version, Series |-> source.Series,
     BackupCreated |-> source.Started, Hostname |-> source.Hostname,
     HANodes |-> source.HANodes, ContainsLogs |-> FALSE, ModelCount |-> 0]

flatV0ToBackupMetadata(source, haNodes) ==
    [FormatVersion |-> 0, ControllerModelUUID |-> source.Environment,
     JujuVersion |-> source.Version, Series |-> source.Series,
     BackupCreated |-> source.Started, Hostname |-> source.Hostname,
     HANodes |-> haNodes, ContainsLogs |-> FALSE, ModelCount |-> 0]

\* The metadata.json files: none, one that is not JSON, a document.
MetadataFiles ==
    {f \in [kind : {"absent", "garbage", "json"}, doc : MetadataDocs] :
        f.kind # "json" =>
            (f.doc.FormatVersion = 0 /\ f.doc.HANodes = 0 /\ f.doc.ModelUUID = "")}

readMetadataJSON(dir) ==
    IF dir.metadata.kind = "absent" THEN [err |-> NotExist, value |-> <<>>]
    ELSE IF dir.metadata.kind = "garbage" THEN
        [err |-> Annotate(Errorf("json", "invalid character 'g' looking for beginning of value"),
                          "unmarshalling v1 metadata"),
         value |-> <<>>]
    ELSE IF dir.metadata.doc.FormatVersion > 1 THEN
        [err |-> Errorf("backup", "unsupported backup format version "
                                    \o ToString(dir.metadata.doc.FormatVersion)),
         value |-> <<>>]
    ELSE IF dir.metadata.doc.FormatVersion = 1 THEN
        [err |-> Nil, value |-> flatToBackupMetadata(dir.metadata.doc)]
    ELSE LET haNodes == countHANodes(dir.controllerNodes, dir.machines,
                                       dir.metadata.doc.Environment, dir.intSize)
         IN IF haNodes.err # Nil THEN
                [err |-> Annotate(haNodes.err, "counting HA nodes"), value |-> <<>>]
            ELSE [err |-> Nil, value |-> flatV0ToBackupMetadata(dir.metadata.doc, haNodes.value)]

\* The logs directory of the dump: none, one that cannot be read, an empty
\* one, one with entries.
LogsDirs == {"absent", "unreadable", "empty", "entries"}

containsLogs(dir) ==
    IF dir.logs = "absent" THEN [err |-> Nil, value |-> FALSE]
    ELSE IF dir.logs = "unreadable" THEN
        [err |-> Errorf("os", "permission denied"), value |-> FALSE]
    ELSE [err |-> Nil, value |-> dir.logs = "entries"]

countModels(dir) == countBsonDocs(dir.models, dir.intSize)

Metadata(dir) ==
    LET read == readMetadataJSON(dir)
        logs == containsLogs(dir)
        models == countModels(dir)
    IN IF read.err # Nil THEN [err |-> Annotate(read.err, "reading metadata"), value |-> <<>>]
       ELSE IF logs.err # Nil THEN
           [err |-> Annotate(logs.err, "checking for logs"), value |-> <<>>]
       ELSE IF models.err # Nil THEN
           [err |-> Annotate(models.err, "counting models"), value |-> <<>>]
       ELSE [err |-> Nil,
             value |-> [read.value EXCEPT !.ContainsLogs = logs.value,
                                          !.ModelCount = models.value]]

\* The documents a models.bson is made of: an empty document, one with an
\* element, one whose element reads like a size.
ModelDocs == {<<5, 0, 0, 0, 0>>, <<8, 0, 0, 0, 16, 109, 0, 0>>, <<9, 0, 0, 0, 5, 0, 0, 0, 0>>}

RECURSIVE Flatten(_)
Flatten(q) == IF q = <<>> THEN <<>> ELSE q[1] \o Flatten(Tail(q))

DocSeqs(docs, n) == UNION {[1..k -> docs] : k \in 0..n}

\* What can follow the last whole document of a dump file: nothing, a part
\* of a size, a size below 4, a document cut short.
Tails == {<<>>, <<5, 0>>, <<3, 0, 0, 0>>, <<9, 0, 0, 0, 1>>}

\* The machines of a dump: none, a controller of three nodes (one of them
\* with the job twice) next to a machine of another model and machines
\* without the job, a single node.
MachineLists ==
    {<<>>,
     <<[uuid |-> "how-bizarre", jobs |-> <<2>>], [uuid |-> "how-bizarre", jobs |-> <<2, 2>>],
       [uuid |-> "alex the astronaut", jobs |-> <<2>>], [uuid |-> "how-bizarre", jobs |-> <<1>>],
       [uuid |-> "how-bizarre", jobs |-> <<1, 2>>], [uuid |-> "how-bizarre", jobs |-> <<>>]>>,
     <<[uuid |-> "how-bizarre", jobs |-> <<2>>]>>}

MachinesFile(list) ==
    File(Flatten([k \in 1..Len(list) |-> MachineDoc(list[k].uuid, list[k].jobs)]))

\* The dumps of the machines collection: no file, the machines above, a
\* corrupted document after a good one, a file cut short.
MachinesFiles ==
    {NoFile} \cup {MachinesFile(list) : list \in MachineLists}
        \cup {File(MachineDoc("how-bizarre", <<2>>) \o <<6, 0, 0, 0, 1, 9>>),
               File(MachineDoc("how-bizarre", <<2>>) \o <<9, 0, 0, 0, 1>>)}

\* The dump of a controllerNodes collection of n documents.
ControllerNodesFile(n) == File(Flatten([k \in 1..n |-> <<5, 0, 0, 0, 0>>]))

ControllerNodeCounts == {0, 3}

ControllerNodesFiles ==
    {NoFile} \cup {ControllerNodesFile(n) : n \in ControllerNodeCounts}
        \cup {File(<<5, 0, 0, 0, 0>> \o <<9, 0, 0, 0, 1>>)}

\* The dumps of the models collection: no file, or up to MaxDocs documents
\* and a tail; docs and tail keep what the file was made of.
ModelsFiles ==
    {[file |-> NoFile, docs |-> <<>>, tail |-> <<>>]}
        \cup {[file |-> File(Flatten(docs) \o tail), docs |-> docs, tail |-> tail] :
                 docs \in DocSeqs(ModelDocs, MaxDocs), tail \in Tails}

InitMetadata ==
    /\ InitCommon
    /\ pc = "metadata"
    /\ replicaSet = NoReplicaSet
    /\ backup = Failed("none")
    /\ controller = Failed("none")

\* One call of Metadata; result keeps the backup it was applied to.
ApiMetadata ==
    /\ pc = "metadata"
    /\ result = NoResult
    /\ \E md \in MetadataFiles : \E logs \in LogsDirs :
       \E nodes \in ControllerNodesFiles : \E machines \in MachinesFiles :
       \E models \in ModelsFiles : \E intSize \in {64} :
         LET dir == [metadata |-> md, logs |-> logs, controllerNodes |-> nodes,
                     machines |-> machines, models |-> models.file, intSize |-> intSize]
             r == Metadata(dir)
         IN /\ result' = [op |-> "Metadata", err |-> r.err,
                          value |-> [dir |-> dir, docs |-> models.docs, tail |-> models.tail,
                                     metadata |-> r.value]]
            /\ trace' = <<Event("backup", "Metadata", "", r.err = Nil)>>
    /\ UNCHANGED <<pc, rpc, replicaSet, pre, attempt, attemptErr, startAll,
                   manualAgentControl, restart, allowDowngrade, backup, controller, cmdErr>>

NextMetadata == ApiMetadata

SpecMetadata == InitMetadata /\ [][NextMetadata]_vars

(***************************************************************************)
(* SpecBson: countBsonDocs applied to a dump file of up to MaxDocs          *)
(* documents followed by nothing or by a document that is not whole, by a  *)
(* program built with either width of int.                                 *)
(***************************************************************************)
\* What follows the whole documents: the tails above, and documents whose
\* size has its top bit set or is the largest below that.
BsonTails ==
    Tails \cup {<<255, 255, 255, 255>>, <<0, 0, 0, 128, 1>>, <<255, 255, 255, 127>>}

InitBson ==
    /\ InitCommon
    /\ pc = "bson"
    /\ replicaSet = NoReplicaSet
    /\ backup = Failed("none")
    /\ controller = Failed("none")

\* One call of countBsonDocs; result keeps what the file was made of.
ApiCountBsonDocs ==
    /\ pc = "bson"
    /\ result = NoResult
    /\ \E docs \in DocSeqs(ModelDocs, MaxDocs) : \E tail \in BsonTails :
       \E intSize \in IntSizes :
       \E r \in {countBsonDocs(File(Flatten(docs) \o tail), intSize)} :
         /\ result' = [op |-> "countBsonDocs", err |-> r.err,
                       value |-> [docs |-> docs, tail |-> tail, intSize |-> intSize,
                                  count |-> r.value]]
         /\ trace' = <<Event("backup", "countBsonDocs", "", r.err = Nil)>>
    /\ UNCHANGED <<pc, rpc, replicaSet, pre, attempt, attemptErr, startAll,
                   manualAgentControl, restart, allowDowngrade, backup, controller, cmdErr>>

NextBson == ApiCountBsonDocs

SpecBson == InitBson /\ [][NextBson]_vars

(***************************************************************************)
(* SpecRunner: remoteRunner.RunScript applied to a script, for a target    *)
(* host, under every combination of the steps that can fail. /tmp of the   *)
(* local machine and /tmp of the target hold no script before the call.    *)
(***************************************************************************)
\* What can go wrong in a call: ioutil.TempFile, io.WriteString, Close, the
\* scp, the remote command, os.Remove. suffix is what TempFile adds to the
\* name.
RunnerEnvs ==
    [tempFileErr : BOOLEAN, writeErr : BOOLEAN, closeErr : BOOLEAN, scpErr : BOOLEAN,
     runErr : BOOLEAN, removeErr : BOOLEAN, suffix : {"012345", "678901"}]

\* scpTempScript: the copy of /tmp/name to /tmp/name on the target; a copy
\* that fails is taken to leave nothing on the target.
scpTempScript(ip, name, env) ==
    [err |-> IF env.scpErr THEN Errorf("runner", "lost connection") ELSE Nil,
     remote |-> IF env.scpErr THEN {} ELSE {"/tmp/" \o name},
     calls |-> <<Event("local", "scp", "/tmp/" \o name \o " ubuntu@" \o ip \o ":/tmp/" \o name,
                       ~env.scpErr)>>]

\* remoteRunner.RunScript: the error it returns, the script files it leaves
\* in /tmp of the local machine and of the target, and the commands it runs.
\* The deferred function closes and removes the local file on every return
\* that follows its creation, dropping the error of os.Remove.
RunScript(ip, env) ==
    LET name == "juju-restore-script" \o env.suffix
        path == "/tmp/" \o name
        kept == IF env.removeErr THEN {path} ELSE {}
        copied == scpTempScript(ip, name, env)
        ran == <<Event("remote", "Run", "sudo bash " \o path, ~env.runErr)>>
    IN IF env.tempFileErr THEN
           [err |-> Annotate(Errorf("os", "open /tmp: permission denied"), "creating tempfile"),
            local |-> {}, remote |-> {}, calls |-> <<>>]
       ELSE IF env.writeErr THEN
           [err |-> Errorf("os", "no space left on device"),
            local |-> kept, remote |-> {}, calls |-> <<>>]
       ELSE IF env.closeErr THEN
           [err |-> Errorf("os", "input/output error"),
            local |-> kept, remote |-> {}, calls |-> <<>>]
       ELSE IF copied.err # Nil THEN
           [err |-> Annotate(copied.err, "scping script to " \o ip),
            local |-> kept, remote |-> copied.remote, calls |-> copied.calls]
       ELSE [err |-> IF env.runErr THEN Errorf("runner", "exit status 1") ELSE Nil,
             local |-> kept, remote |-> copied.remote, calls |-> copied.calls \o ran]

InitRunner ==
    /\ InitCommon
    /\ pc = "runner"
    /\ replicaSet = NoReplicaSet
    /\ backup = Failed("none")
    /\ controller = Failed("none")

\* One call of RunScript; result keeps the target, what went wrong and the
\* files left.
ApiRunScript ==
    /\ pc = "runner"
    /\ result = NoResult
    /\ \E i \in HostIndexes : \E env \in RunnerEnvs : \E r \in {RunScript(Host(i), env)} :
         /\ result' = [op |-> "RunScript", err |-> r.err,
                       value |-> [ip |-> Host(i), env |-> env, local |-> r.local,
                                  remote |-> r.remote]]
         /\ trace' = r.calls
    /\ UNCHANGED <<pc, rpc, replicaSet, pre, attempt, attemptErr, startAll,
                   manualAgentControl, restart, allowDowngrade, backup, controller, cmdErr>>

NextRunner == ApiRunScript

SpecRunner == InitRunner /\ [][NextRunner]_vars

(***************************************************************************)
(* SpecConfirm: UserConfirmYes applied to what the user types, a sequence  *)
(* of keys that readOneCharFunc returns one at a time; once the keys are   *)
(* used up the read fails.                                                 *)
(***************************************************************************)
MaxKeys == 3        \* keys typed in answer to a prompt

Keys == {"y", "Y", "e", "E", "s", "S", "n", "N", "x", "\n", "\r"}

Responses == UNION {[1..k -> Keys] : k \in 0..MaxKeys}

\* The notification of an invalid answer.
InvalidAnswer(answer) ==
    Event("ui", "Notify",
          "Invalid answer " \o Quote(answer) \o ". Please answer (y/N) or Enter to default to N: ",
          TRUE)

\* UserConfirmYes: the error it returns, the keys it leaves unread and what
\* it notifies.
RECURSIVE UserConfirmYes(_)
UserConfirmYes(stdin) ==
    LET input == IF stdin = <<>> THEN [char |-> "", err |-> Errorf("read", "EOF")]
                 ELSE [char |-> Head(stdin), err |-> Nil]
        asked == prompt(input)
    IN IF asked.err # Nil THEN
           [err |-> asked.err, rest |-> IF stdin = <<>> THEN <<>> ELSE Tail(stdin),
            notified |-> <<>>]
       ELSE IF asked.proceed THEN [err |-> Nil, rest |-> Tail(stdin), notified |-> <<>>]
       ELSE LET again == UserConfirmYes(Tail(stdin))
            IN [again EXCEPT !.notified = <<InvalidAnswer(input.char)>> \o @]

InitConfirm ==
    /\ InitCommon
    /\ pc = "ui"
    /\ replicaSet = NoReplicaSet
    /\ backup = Failed("none")
    /\ controller = Failed("none")

\* One call of UserConfirmYes; result keeps the keys typed and the keys left.
ApiUserConfirmYes ==
    /\ pc = "ui"
    /\ result = NoResult
    /\ \E stdin \in Responses :
         LET r == UserConfirmYes(stdin)
         IN /\ result' = [op |-> "UserConfirmYes", err |-> r.err,
                          value |-> [stdin |-> stdin, rest |-> r.rest]]
            /\ trace' = r.notified
    /\ UNCHANGED <<pc, rpc, replicaSet, pre, attempt, attemptErr, startAll,
                   manualAgentControl, restart, allowDowngrade, backup, controller, cmdErr>>

NextConfirm == ApiUserConfirmYes

SpecConfirm == InitConfirm /\ [][NextConfirm]_vars

(***************************************************************************)
(* SpecSnapshotter: Snapshot, Restore and Discard applied, in any order    *)
(* and any number of times, to a Snapshotter built over a primary node and *)
(* up to MaxOthers other nodes. The database runs on every node at first;  *)
(* each node fails the operations of its faults, every time, and the       *)
(* database gateway fails to reconnect or not, every time.                 *)
(***************************************************************************)
MaxOthers == 2      \* nodes of a Snapshotter besides the primary

\* The node of the i-th machine; the first is the primary's.
SnapshotNode(i) == [ip |-> Host(i), jujuID |-> ToString(i - 1), local |-> i = 1]

\* The operations a node can be failing.
NodeFaults ==
    {{}, {"StopService"}, {"SnapshotDatabase"}, {"StartService"}, {"Status"},
     {"RestoreSnapshot"}, {"DiscardSnapshot"}}

\* The name SnapshotDatabase returns on a node.
SnapshotName(ip) == "juju-db-snapshot-" \o ip

\* NewSnapshotter over n other nodes; running is the set of the addresses of
\* the nodes whose database service runs.
NewSnapshotter(n, faults, reconnectFails) ==
    [primary |-> SnapshotNode(1),
     others |-> [i \in 1..n |-> SnapshotNode(i + 1)],
     snapshots |-> <<>>,
     running |-> {Host(i) : i \in 1..(n + 1)},
     faults |-> faults,
     reconnectFails |-> reconnectFails]

primaryLast(sn) == sn.others \o <<sn.primary>>

\* Defined like primaryFirst but for the order.
primaryFirstReversed(sn) == sn.others \o <<sn.primary>>

primaryFirst(sn) == <<sn.primary>> \o sn.others

\* A call of an operation of a node.
NodeCall(op, n, sn) ==
    [err |-> IF op \in sn.faults[n.ip] THEN Errorf("machine", op \o " failed on " \o n.ip)
             ELSE Nil,
     calls |-> <<Event("node", op, n.ip, op \notin sn.faults[n.ip])>>]

Record(snapshots, ip, name) ==
    [a \in DOMAIN snapshots \cup {ip} |-> IF a = ip THEN name ELSE snapshots[a]]

Forget(snapshots, ip) == [a \in DOMAIN snapshots \ {ip} |-> snapshots[a]]

\* The functions handed to apply, on one node: the stop and the start of the
\* database service, the snapshot that Snapshot records, the restore that
\* Restore forgets.
Callback(kind, n, sn) ==
    LET op == CASE kind = "stop" -> "StopService"
                [] kind = "start" -> "StartService"
                [] kind = "snapshot" -> "SnapshotDatabase"
                [] kind = "restore" -> "RestoreSnapshot"
        call == NodeCall(op, n, sn)
    IN IF call.err # Nil THEN
           [err |-> IF kind = "restore"
                    THEN Annotate(call.err, "restoring snapshot " \o Quote(sn.snapshots[n.ip]))
                    ELSE call.err,
            sn |-> sn, calls |-> call.calls]
       ELSE [err |-> Nil, calls |-> call.calls,
             sn |-> CASE kind = "stop" -> [sn EXCEPT !.running = @ \ {n.ip}]
                      [] kind = "start" -> [sn EXCEPT !.running = @ \cup {n.ip}]
                      [] kind = "snapshot" ->
                           [sn EXCEPT !.snapshots = Record(@, n.ip, SnapshotName(n.ip))]
                      [] kind = "restore" -> [sn EXCEPT !.snapshots = Forget(@, n.ip)]]

\* Defined like apply but for stopping at the first error.
RECURSIVE applyToAll(_, _, _)
applyToAll(machines, kind, sn) ==
    IF machines = <<>> THEN [err |-> Nil, sn |-> sn, calls |-> <<>>]
    ELSE LET one == Callback(kind, Head(machines), sn)
             more == applyToAll(Tail(machines), kind, one.sn)
         IN [err |-> IF one.err # Nil
                     THEN Annotate(one.err, "on " \o NodeString(Head(machines)))
                     ELSE more.err,
             sn |-> more.sn, calls |-> one.calls \o more.calls]

RECURSIVE apply(_, _, _)
apply(machines, kind, sn) ==
    IF machines = <<>> THEN [err |-> Nil, sn |-> sn, calls |-> <<>>]
    ELSE LET one == Callback(kind, Head(machines), sn)
         IN IF one.err # Nil THEN
                [err |-> Annotate(one.err, "on " \o NodeString(Head(machines))),
                 sn |-> one.sn, calls |-> one.calls]
            ELSE LET more == apply(Tail(machines), kind, one.sn)
                 IN [more EXCEPT !.calls = one.calls \o @]

\* Defined like tryRestart but for asking the status of a node.
RECURSIVE tryRestartUnasked(_, _)
tryRestartUnasked(machines, sn) ==
    IF machines = <<>> THEN [sn |-> sn, calls |-> <<>>]
    ELSE LET n == Head(machines)
             start == Callback("start", n, sn)
             more == tryRestartUnasked(Tail(machines), start.sn)
         IN [more EXCEPT !.calls = start.calls \o @]

\* The loop of tryRestartAll.
RECURSIVE tryRestart(_, _)
tryRestart(machines, sn) ==
    IF machines = <<>> THEN [sn |-> sn, calls |-> <<>>]
    ELSE LET n == Head(machines)
             status == NodeCall("Status", n, sn)
             start == Callback("start", n, sn)
             startsIt == status.err = Nil /\ n.ip \notin sn.running
             more == tryRestart(Tail(machines), IF startsIt THEN start.sn ELSE sn)
         IN [more EXCEPT !.calls = status.calls \o (IF startsIt THEN start.calls ELSE <<>>) \o @]

tryRestartAll(sn) == tryRestart(primaryFirst(sn), sn)

\* Defined like stopAll but for the nodes other than the primary.
stopPrimary(sn) == apply(<<sn.primary>>, "stop", sn)

stopAll(sn) == apply(primaryLast(sn), "stop", sn)

startAllDatabases(sn) == apply(primaryFirst(sn), "start", sn)

\* s.db.Reconnect().
Reconnect(sn) ==
    [err |-> IF sn.reconnectFails THEN Errorf("db", "no reachable servers") ELSE Nil,
     calls |-> <<Event("db", "Reconnect", "", ~sn.reconnectFails)>>]

\* Snapshot: the error it returns, the Snapshotter and the nodes it leaves
\* and the calls it makes.
Snapshot(sn) ==
    IF DOMAIN sn.snapshots # {} THEN
        [err |-> Errorf("core", "snapshots have already been created"), sn |-> sn, calls |-> <<>>]
    ELSE LET stopped == stopAll(sn)
             snapped == apply(primaryFirst(sn), "snapshot", stopped.sn)
             started == startAllDatabases(snapped.sn)
             reconnected == Reconnect(started.sn)
             body ==
                 IF stopped.err # Nil THEN
                     [stopped EXCEPT !.err = Annotate(@, "stopping databases")]
                 ELSE IF snapped.err # Nil THEN
                     [err |-> Annotate(snapped.err, "snapshotting databases"),
                      sn |-> snapped.sn, calls |-> stopped.calls \o snapped.calls]
                 ELSE IF started.err # Nil THEN
                     [err |-> Annotate(started.err, "starting databases"),
                      sn |-> started.sn,
                      calls |-> stopped.calls \o snapped.calls \o started.calls]
                 ELSE [err |-> Annotate(reconnected.err, "reconnecting to db"),
                       sn |-> started.sn,
                       calls |-> stopped.calls \o snapped.calls \o started.calls
                                   \o reconnected.calls]
             restarted == tryRestartAll(body.sn)
         IN IF body.err = Nil THEN body
            ELSE [err |-> body.err, sn |-> restarted.sn, calls |-> body.calls \o restarted.calls]

\* Defined like Discard but for going on after a discard that fails.
DiscardUntilError(sn) ==
    LET found == SelectSeq(primaryFirst(sn), LAMBDA n : n.ip \in DOMAIN sn.snapshots)
        failed == {k \in 1..Len(found) : NodeCall("DiscardSnapshot", found[k], sn).err # Nil}
        last == IF failed = {} THEN Len(found)
                ELSE CHOOSE k \in failed : \A j \in failed : k <= j
    IN [err |-> IF failed # {} THEN Errorf("core", "errors discarding snapshots: 1") ELSE Nil,
        sn |-> sn,
        calls |-> [k \in 1..last |-> NodeCall("DiscardSnapshot", found[k], sn).calls[1]]]

\* Defined like Discard but for keeping the records.
DiscardForgetting(sn) ==
    LET found == SelectSeq(primaryFirst(sn), LAMBDA n : n.ip \in DOMAIN sn.snapshots)
        failed == {k \in 1..Len(found) : NodeCall("DiscardSnapshot", found[k], sn).err # Nil}
    IN [err |-> IF failed # {}
                THEN Errorf("core", "errors discarding snapshots: "
                                      \o ToString(Cardinality(failed)))
                ELSE Nil,
        sn |-> [sn EXCEPT !.snapshots = <<>>],
        calls |-> [k \in 1..Len(found) |-> NodeCall("DiscardSnapshot", found[k], sn).calls[1]]]

\* Discard.
Discard(sn) ==
    LET found == SelectSeq(primaryFirst(sn), LAMBDA n : n.ip \in DOMAIN sn.snapshots)
        calls == [k \in 1..Len(found) |-> NodeCall("DiscardSnapshot", found[k], sn).calls[1]]
        errs == Cardinality({k \in 1..Len(found) :
                               NodeCall("DiscardSnapshot", found[k], sn).err # Nil})
    IN [err |-> IF errs > 0
                THEN Errorf("core", "errors discarding snapshots: " \o ToString(errs))
                ELSE Nil,
        sn |-> sn, calls |-> calls]

\* Defined like SnapshotterRestore but for stopping the databases before
\* the recorded snapshots are looked at, and for what follows the look.
SnapshotterRestoreStoppingFirst(sn) ==
    LET stopped == stopAll(sn)
    IN IF Cardinality(DOMAIN sn.snapshots) # Len(sn.others) + 1 THEN
           [err |-> Errorf("core", "not all machines have snapshots so only discarding is allowed"),
            sn |-> stopped.sn, calls |-> stopped.calls]
       ELSE [stopped EXCEPT !.err = Errorf("core", "stopping databases")]

\* Snapshotter.Restore.
SnapshotterRestore(sn) ==
    LET nodes == primaryFirst(sn)
        missing == {k \in 1..Len(nodes) : nodes[k].ip \notin DOMAIN sn.snapshots}
        stopped == stopAll(sn)
        unstopped == tryRestartAll(stopped.sn)
        restored == apply(nodes, "restore", stopped.sn)
        unrestored == tryRestartAll(restored.sn)
        started == startAllDatabases(restored.sn)
        reconnected == Reconnect(started.sn)
    IN IF Cardinality(DOMAIN sn.snapshots) # Len(sn.others) + 1 THEN
           [err |-> Errorf("core", "not all machines have snapshots so only discarding is allowed"),
            sn |-> sn, calls |-> <<>>]
       ELSE IF missing # {} THEN
           [err |-> Errorf("core", "no snapshot found for "
                             \o NodeString(nodes[CHOOSE k \in missing : \A j \in missing : k <= j])),
            sn |-> sn, calls |-> <<>>]
       ELSE IF stopped.err # Nil THEN
           [err |-> Annotate(stopped.err, "stopping databases"),
            sn |-> unstopped.sn, calls |-> stopped.calls \o unstopped.calls]
       ELSE IF restored.err # Nil THEN
           IF Cardinality(DOMAIN restored.sn.snapshots) = Len(sn.others) + 1
           THEN [err |-> restored.err, sn |-> unrestored.sn,
                 calls |-> stopped.calls \o restored.calls \o unrestored.calls]
           ELSE [err |-> restored.err, sn |-> restored.sn,
                 calls |-> stopped.calls \o restored.calls]
       ELSE IF started.err # Nil THEN
           [err |-> Annotate(started.err, "starting databases"), sn |-> started.sn,
            calls |-> stopped.calls \o restored.calls \o started.calls]
       ELSE [err |-> Annotate(reconnected.err, "reconnecting to db"), sn |-> started.sn,
             calls |-> stopped.calls \o restored.calls \o started.calls \o reconnected.calls]

\* What result keeps of a Snapshotter: the Snapshotter and its nodes as the
\* last call left them and as it found them.
Snapshotted(op, before, r) ==
    [op |-> op, err |-> r.err, value |-> [sn |-> r.sn, before |-> before]]

InitSnapshotter ==
    /\ pc = "snapshotter"
    /\ rpc = "idle"
    /\ pre = NoReplicaSet
    /\ replicaSet = NoReplicaSet
    /\ attempt = 0
    /\ attemptErr = Nil
    /\ startAll = FALSE
    /\ trace = <<>>
    /\ manualAgentControl = FALSE
    /\ restart = FALSE
    /\ allowDowngrade = FALSE
    /\ cmdErr = Nil
    /\ backup = Failed("none")
    /\ controller = Failed("none")
    /\ \E n \in 0..MaxOthers : \E faults \in [{Host(i) : i \in 1..(n + 1)} -> NodeFaults] :
       \E reconnectFails \in BOOLEAN :
         LET sn == NewSnapshotter(n, faults, reconnectFails)
         IN result = Snapshotted("NewSnapshotter", sn, [err |-> Nil, sn |-> sn])

ApiSnapshot ==
    /\ pc = "snapshotter"
    /\ \E r \in {Snapshot(result.value.sn)} :
          /\ result' = Snapshotted("Snapshot", result.value.sn, r)
          /\ trace' = r.calls
    /\ UNCHANGED <<pc, rpc, replicaSet, pre, attempt, attemptErr, startAll,
                   manualAgentControl, restart, allowDowngrade, backup, controller, cmdErr>>

ApiSnapshotterRestore ==
    /\ pc = "snapshotter"
    /\ \E r \in {SnapshotterRestore(result.value.sn)} :
          /\ result' = Snapshotted("Restore", result.value.sn, r)
          /\ trace' = r.calls
    /\ UNCHANGED <<pc, rpc, replicaSet, pre, attempt, attemptErr, startAll,
                   manualAgentControl, restart, allowDowngrade, backup, controller, cmdErr>>

ApiDiscard ==
    /\ pc = "snapshotter"
    /\ \E r \in {Discard(result.value.sn)} :
          /\ result' = Snapshotted("Discard", result.value.sn, r)
          /\ trace' = r.calls
    /\ UNCHANGED <<pc, rpc, replicaSet, pre, attempt, attemptErr, startAll,
                   manualAgentControl, restart, allowDowngrade, backup, controller, cmdErr>>

NextSnapshotter ==
    \/ ApiSnapshot
    \/ ApiSnapshotterRestore
    \/ ApiDiscard

SpecSnapshotter == InitSnapshotter /\ [][NextSnapshotter]_vars

(***************************************************************************)
(* Claims about CheckDatabaseState (SpecHealth).                           *)
(***************************************************************************)
MemberConditionHolds(m) ==
    /\ m.State \in {"PRIMARY", "SECONDARY"}
    /\ m.Healthy = TRUE
    /\ m.JujuMachineID # ""

PrimaryIndexes(rs) == {i \in 1..Len(rs.Members) : rs.Members[i].State = "PRIMARY"}

Checked == result.op = "CheckDatabaseState"

\* C2: CheckDatabaseState returns no error if and only if every member is
\* PRIMARY or SECONDARY, healthy and has a juju machine ID, and exactly one
\* member is PRIMARY and that member is self.
C2_AcceptsIffHealthyWithOneSelfPrimary ==
    Checked =>
        (result.err = Nil <=>
            /\ \A i \in 1..Len(replicaSet.Members) : MemberConditionHolds(replicaSet.Members[i])
            /\ Cardinality(PrimaryIndexes(replicaSet)) = 1
            /\ \A i \in PrimaryIndexes(replicaSet) : replicaSet.Members[i].Self)

Violators(rs) == SelectSeq(rs.Members, LAMBDA m : ~MemberConditionHolds(m))

Rendered(m) == ToString(m.ID) \o " \"" \o m.Name \o "\" (juju machine " \o m.JujuMachineID \o ")"

RECURSIVE RenderedList(_, _)
RenderedList(ms, n) ==
    IF n = 0 THEN ""
    ELSE IF n = 1 THEN Rendered(ms[1])
    ELSE RenderedList(ms, n - 1) \o ", " \o Rendered(ms[n])

\* C9: when some member violates the per-member condition, the error is the
\* unhealthy-members error listing exactly the violating members in
\* replica-set order, each rendered as ID "name" (juju machine X), whatever
\* the primary is.
C9_UnhealthyMembersListed ==
    (Checked /\ Len(Violators(replicaSet)) > 0) =>
        /\ result.err.kind = "unhealthyMembers"
        /\ result.err.members = Violators(replicaSet)
        /\ result.err.msg = "unhealthy replica set members: "
                \o RenderedList(Violators(replicaSet), Len(Violators(replicaSet)))

\* Two of three members violate the condition and nobody is PRIMARY.
C9_Witness ==
    /\ Checked
    /\ Len(replicaSet.Members) = 3
    /\ PrimaryIndexes(replicaSet) = {}
    /\ result.err.msg = "unhealthy replica set members: "
            \o "1 \"10.0.0.1:37017\" (juju machine 0), 3 \"10.0.0.3:37017\" (juju machine )"

\* C10: when every member satisfies the per-member condition, the check fails
\* with "no primary found in replica set" if no member is PRIMARY, and with
\* "not running on primary replica set member, primary is <member>" if the
\* PRIMARY member is not self.
C10_NoPrimaryOrNotOnPrimary ==
    (Checked /\ Len(Violators(replicaSet)) = 0) =>
        /\ PrimaryIndexes(replicaSet) = {} =>
              result.err = [kind |-> "noPrimary", msg |-> "no primary found in replica set"]
        /\ \A i \in PrimaryIndexes(replicaSet) :
              (PrimaryIndexes(replicaSet) = {i} /\ ~replicaSet.Members[i].Self) =>
                  /\ result.err.kind = "notPrimary"
                  /\ result.err.msg =
                        "not running on primary replica set member, primary is "
                        \o Rendered(replicaSet.Members[i])

\* The primary is the second of three members and self is the first.
C10_Witness ==
    /\ Checked
    /\ Len(replicaSet.Members) = 3
    /\ replicaSet.Members[1].Self
    /\ result.err.msg = "not running on primary replica set member, primary is "
            \o "2 \"10.0.0.2:37017\" (juju machine 1)"

(***************************************************************************)
(* Claims about CheckRestorable (SpecPrecheck).                            *)
(***************************************************************************)
\* CheckRestorable ran on a backup and a controller that could be read.
Prechecked == result.op = "CheckRestorable" /\ backup.err = Nil /\ controller.err = Nil

Bk == backup.value
Ctl == controller.value

SameIgnoringBuild(v, w) ==
    /\ v.Major = w.Major
    /\ v.Minor = w.Minor
    /\ v.Tag = w.Tag
    /\ v.Patch = w.Patch

\* v is lower than w, build numbers ignored; a tagged version is lower than
\* the untagged one of the same major and minor.
LowerIgnoringBuild(v, w) ==
    \/ v.Major < w.Major
    \/ v.Major = w.Major /\ v.Minor < w.Minor
    \/ v.Major = w.Major /\ v.Minor = w.Minor /\ v.Tag # "" /\ w.Tag = ""
    \/ v.Major = w.Major /\ v.Minor = w.Minor /\ v.Tag = w.Tag /\ v.Patch < w.Patch

SameIdentity ==
    /\ Bk.ControllerModelUUID = Ctl.ControllerModelUUID
    /\ Bk.Series = Ctl.Series
    /\ Bk.HANodes = Ctl.HANodes

\* C5: for a backup and a controller equal on controller-model UUID, series,
\* HA-node count and version ignoring the build number, CheckRestorable(false)
\* succeeds with a result carrying the backup's date, UUID and model count and
\* both versions with their build numbers.
C5_EqualPairsRestorable ==
    (Prechecked /\ ~result.value.allowDowngrade /\ SameIdentity
        /\ SameIgnoringBuild(Bk.JujuVersion, Ctl.JujuVersion)) =>
        /\ result.err = Nil
        /\ result.value.result =
              <<[BackupDate |-> Bk.BackupCreated,
                 ControllerModelUUID |-> Bk.ControllerModelUUID,
                 BackupJujuVersion |-> Bk.JujuVersion,
                 ControllerJujuVersion |-> Ctl.JujuVersion,
                 ModelCount |-> Bk.ModelCount]>>

\* The two versions differ in their build numbers only.
C5_Witness ==
    /\ Prechecked
    /\ ~result.value.allowDowngrade
    /\ result.err = Nil
    /\ Bk.JujuVersion.Build = 0
    /\ Ctl.JujuVersion.Build = 1
    /\ result.value.result[1].ControllerJujuVersion.Build = 1

\* C6: for a pair equal on UUID, series and HA-node count whose backup version
\* is lower than the controller's ignoring build numbers, CheckRestorable(false)
\* fails with the error that mentions --allow-downgrade and
\* CheckRestorable(true) succeeds.
C6_DowngradeNeedsFlag ==
    (Prechecked /\ SameIdentity /\ LowerIgnoringBuild(Bk.JujuVersion, Ctl.JujuVersion)) =>
        IF result.value.allowDowngrade
        THEN result.err = Nil /\ Len(result.value.result) = 1
        ELSE /\ result.value.result = <<>>
             /\ result.err.msg =
                   "restoring backup would downgrade from juju "
                   \o Quote(VersionString([Ctl.JujuVersion EXCEPT !.Build = 0]))
                   \o " to "
                   \o Quote(VersionString([Bk.JujuVersion EXCEPT !.Build = 0]))
                   \o " - pass --allow-downgrade if this is intended"

\* A 2.7.6 backup is accepted into a 2.8-beta5.1 controller with the flag.
C6_Witness ==
    /\ Prechecked
    /\ result.value.allowDowngrade
    /\ result.err = Nil
    /\ VersionString(Bk.JujuVersion) = "2.7.6"
    /\ VersionString(Ctl.JujuVersion) = "2.8-beta5.1"

\* C7: a backup whose version is greater than the controller's ignoring build
\* numbers is never accepted: with allowDowngrade it fails with "backup juju
\* version X is greater than controller version Y", without it with the plain
\* "juju versions don't match" error.
C7_NewerBackupRejected ==
    (Prechecked /\ LowerIgnoringBuild(Ctl.JujuVersion, Bk.JujuVersion)) =>
        /\ result.value.result = <<>>
        /\ result.err.msg =
              IF result.value.allowDowngrade
              THEN "backup juju version " \o Quote(VersionString(Bk.JujuVersion))
                   \o " is greater than controller version "
                   \o Quote(VersionString(Ctl.JujuVersion))
              ELSE "juju versions don't match - backup: "
                   \o Quote(VersionString(Bk.JujuVersion)) \o ", controller: "
                   \o Quote(VersionString(Ctl.JujuVersion))

\* A 2.8-beta5.1 backup is refused by a 2.7.6 controller with the flag.
C7_Witness ==
    /\ Prechecked
    /\ result.value.allowDowngrade
    /\ result.err.msg = "backup juju version \"2.8-beta5.1\" is greater than "
            \o "controller version \"2.7.6\""

\* The error CheckRestorable gives for each field the pair differs in.
MismatchErrors ==
    (IF Bk.ControllerModelUUID # Ctl.ControllerModelUUID
     THEN {"controller model uuids don't match - backup: "
            \o Quote(Bk.ControllerModelUUID) \o ", controller: "
            \o Quote(Ctl.ControllerModelUUID)}
     ELSE {})
    \cup
    (IF Bk.HANodes # Ctl.HANodes
     THEN {"controller HA node counts don't match - backup: "
            \o ToString(Bk.HANodes) \o ", controller: " \o ToString(Ctl.HANodes)}
     ELSE {})
    \cup
    (IF Bk.Series # Ctl.Series
     THEN {"controller series don't match - backup: "
            \o Quote(Bk.Series) \o ", controller: " \o Quote(Ctl.Series)}
     ELSE {})

\* C8 as stated: whenever the pair differs in UUID, HA-node count or series,
\* CheckRestorable fails with a nil result and an error that names a
\* mismatching field with both values.
C8_MismatchNamed ==
    (Prechecked /\ ~SameIdentity) =>
        /\ result.value.result = <<>>
        /\ result.err.msg \in MismatchErrors

\* The version comparison lets the pair through.
VersionsAccepted ==
    IF result.value.allowDowngrade
    THEN ~LowerIgnoringBuild(Ctl.JujuVersion, Bk.JujuVersion)
    ELSE SameIgnoringBuild(Bk.JujuVersion, Ctl.JujuVersion)

\* C8 amended: whenever the pair differs in UUID, HA-node count or series,
\* CheckRestorable fails with a nil result; the error names a mismatching
\* field with both values when the version comparison lets the pair through,
\* and is the version comparison's error otherwise.
C8_MismatchNamedAfterVersions ==
    (Prechecked /\ ~SameIdentity) =>
        /\ result.value.result = <<>>
        /\ result.err # Nil
        /\ VersionsAccepted => result.err.msg \in MismatchErrors
        /\ ~VersionsAccepted =>
              result.err.kind \in {"versionGreater", "downgrade", "versionMismatch"}

\* Controller HA=1, backup HA=3, nothing else differs.
C8_Witness ==
    /\ Prechecked
    /\ Bk.JujuVersion = Ctl.JujuVersion
    /\ result.err.msg = "controller HA node counts don't match - backup: 3, controller: 1"

(***************************************************************************)
(* Claims about StopAgents and StartAgents (SpecRestorer).                 *)
(***************************************************************************)
AgentsManaged == result.op \in {"StopAgents", "StartAgents"}

AgentOp == IF result.op = "StopAgents" THEN "StopAgent" ELSE "StartAgent"

\* The address of a member: its name is "<address>:<port>".
AddressOf(m) == "10.0.0." \o ToString(m.ID)

SelfAddresses == {AddressOf(replicaSet.Members[i]) :
                    i \in {k \in 1..Len(replicaSet.Members) : replicaSet.Members[k].Self}}

OtherAddresses == {AddressOf(replicaSet.Members[i]) :
                     i \in {k \in 1..Len(replicaSet.Members) : ~replicaSet.Members[k].Self}}

\* The places in trace of the agent operations run on the addresses of S.
AgentCalls(S) == {i \in 1..Len(trace) : trace[i].op = AgentOp /\ trace[i].arg \in S}

\* C3: StopAgents runs the stop on the self node only after the stop on every
\* targeted secondary (every other member when the flag is set, none
\* otherwise) has been run and has returned; StartAgents runs the start on a
\* secondary only after the start on the self node has returned.
C3_PrimaryLastOnStopFirstOnStart ==
    AgentsManaged =>
        /\ result.op = "StopAgents" =>
             \A j \in AgentCalls(SelfAddresses) :
                /\ \A i \in AgentCalls(OtherAddresses) : i < j
                /\ result.value.all =>
                     \A a \in OtherAddresses : \E i \in AgentCalls({a}) : i < j
        /\ result.op = "StartAgents" =>
             \A j \in AgentCalls(OtherAddresses) :
                \E i \in AgentCalls(SelfAddresses) : i < j

\* StopAgents(true) has run on a replica set of MaxNodes members: the stops of
\* the secondaries, then the stop of the self node.
C3_Witness ==
    /\ result.op = "StopAgents"
    /\ result.value.all
    /\ Len(replicaSet.Members) = MaxNodes
    /\ Len(trace) = MaxNodes
    /\ trace[Len(trace)].arg \in SelfAddresses

\* C4: on a replica set with one self member StopAgents(flag) and
\* StartAgents(flag) return a map (they do not panic) whose keys are the
\* addresses of all members if flag is set and the address of the self member
\* alone otherwise, whatever operations failed; with the flag unset no stop
\* or start is run on another member's node.
C4_ResultKeysAreTargetedNodes ==
    (AgentsManaged /\ Cardinality(SelfAddresses) = 1) =>
        /\ ~result.value.panicked
        /\ DOMAIN result.value.result =
             IF result.value.all THEN SelfAddresses \cup OtherAddresses ELSE SelfAddresses
        /\ ~result.value.all => AgentCalls(OtherAddresses) = {}

\* StartAgents(false) has run on an HA replica set, after a wait that needed
\* more than one attempt, and the start failed on the self node.
C4_Witness ==
    /\ result.op = "StartAgents"
    /\ ~result.value.all
    /\ Cardinality(SelfAddresses) = 1
    /\ OtherAddresses # {}
    /\ attempt > 1
    /\ \E a \in DOMAIN result.value.result : result.value.result[a] # Nil

\* The pings made, as places in trace.
Pings == {i \in 1..Len(trace) : trace[i].obj = "node" /\ trace[i].op = "Ping"}

\* C24: CheckSecondaryControllerNodes pings the node of every member that is
\* not the session's once, pings nothing else, and returns a map whose keys
\* are the addresses of these members, each with nil if its ping succeeded
\* and with the ping's error if not; on a replica set of the session's
\* member alone it returns the empty map.
C24_PingsExactlyTheOtherMembers ==
    result.op = "CheckSecondaryControllerNodes" =>
        /\ DOMAIN result.value = OtherAddresses
        /\ \A a \in OtherAddresses :
              /\ Cardinality({i \in Pings : trace[i].arg = a}) = 1
              /\ \A i \in Pings : trace[i].arg = a => (trace[i].ok <=> result.value[a] = Nil)
              /\ result.value[a] # Nil =>
                    result.value[a] = Errorf("machine", "Ping failed on " \o a)
        /\ \A i \in Pings : trace[i].arg \in OtherAddresses \ SelfAddresses
        /\ Len(trace) = Cardinality(Pings)
        /\ OtherAddresses = {} => result.value = <<>>

\* CheckSecondaryControllerNodes on a replica set of MaxNodes members, one of
\* them the session's: the ping of a secondary failed.
C24_Witness ==
    /\ pc = "api"
    /\ result.op = "CheckSecondaryControllerNodes"
    /\ Len(replicaSet.Members) = MaxNodes
    /\ Cardinality(SelfAddresses) = 1
    /\ \E a \in OtherAddresses : result.value[a] # Nil

(***************************************************************************)
(* Claims about a run of the restore command (Spec).                       *)
(***************************************************************************)
Calls(obj, op) == {i \in 1..Len(trace) : trace[i].obj = obj /\ trace[i].op = op}

\* The places in trace where an agent was stopped, the dump replayed or an
\* agent version rewritten.
Mutations ==
    Calls("node", "StopAgent") \cup Calls("db", "RestoreFromDump")
        \cup Calls("node", "UpdateAgentVersion")

ChecksOfRun == {"CheckDatabaseState", "CheckRestorable", "CheckSecondaryControllerNodes"}

\* A check of the run failed, or the final confirmation did not return nil.
CheckFailedOrDeclined ==
    \/ \E i \in 1..Len(trace) :
          trace[i].obj = "restorer" /\ trace[i].op \in ChecksOfRun /\ ~trace[i].ok
    \/ \E i \in Calls("node", "Ping") : ~trace[i].ok
    \/ \E i \in Calls("ui", "preChecksCompleted") : ~trace[i].ok

\* C1: a stop of an agent, a replay of the dump or a rewrite of an agent
\* version comes, in the run's calls, after a health check that passed, then
\* a compatibility check that passed, then (for a replica set of several
\* members under automatic agent control) a ping that succeeded for every
\* member but one and none that failed, then the final confirmation answered
\* with yes; and once a check has failed or the final confirmation was not
\* given, the run has ended with an error and has stopped no agent, replayed
\* no dump, rewritten no agent version and started no agent.
C1_NoMutationBeforeChecksAndConfirmation ==
    /\ \A k \in Mutations :
         \E h \in Calls("restorer", "CheckDatabaseState") :
         \E q \in Calls("restorer", "CheckRestorable") :
         \E c \in Calls("ui", "preChecksCompleted") :
            /\ h < q /\ q < c /\ c < k
            /\ trace[h].ok /\ trace[q].ok
            /\ trace[c].arg \in {"y", "Y"}
            /\ (Len(replicaSet.Members) > 1 /\ ~manualAgentControl) =>
                 /\ \A i \in Calls("node", "Ping") : q < i /\ i < c /\ trace[i].ok
                 /\ Cardinality({trace[i].arg : i \in Calls("node", "Ping")})
                      = Len(replicaSet.Members) - 1
    /\ CheckFailedOrDeclined =>
         /\ pc = "done"
         /\ cmdErr # Nil
         /\ Mutations = {}
         /\ Calls("node", "StartAgent") = {}

\* A run over a replica set of several members under automatic agent control
\* has gone through: the agents were stopped, the dump replayed, the agent
\* versions rewritten and the agents started.
C1_Witness ==
    /\ pc = "done"
    /\ cmdErr = Nil
    /\ ~restart
    /\ ~manualAgentControl
    /\ Len(replicaSet.Members) > 1
    /\ Calls("node", "StopAgent") # {}
    /\ Calls("db", "RestoreFromDump") # {}
    /\ Calls("node", "UpdateAgentVersion") # {}
    /\ Calls("node", "StartAgent") # {}

\* C11: in a run over a replica set of several members under automatic agent
\* control, once a ping of a secondary has failed the run has ended with the
\* error "'juju-restore' could not connect to all controller machines:
\* controllers' agents cannot be managed", the final confirmation was never
\* asked, no agent was stopped and no dump replayed.
C11_UnreachableSecondaryEndsRun ==
    (\E i \in Calls("node", "Ping") : ~trace[i].ok) =>
        /\ Len(replicaSet.Members) > 1 /\ ~manualAgentControl
        /\ pc = "done"
        /\ cmdErr.msg = "'juju-restore' could not connect to all controller machines: "
                           \o "controllers' agents cannot be managed"
        /\ Calls("ui", "preChecksCompleted") = {}
        /\ Calls("node", "StopAgent") = {}
        /\ Calls("db", "RestoreFromDump") = {}

\* One secondary of a replica set of MaxNodes members answered the ping and
\* the last one did not (or the only one did not), and the run is over.
C11_Witness ==
    /\ pc = "done"
    /\ Len(replicaSet.Members) = MaxNodes
    /\ Cardinality(Calls("node", "Ping")) = MaxNodes - 1
    /\ \E i \in Calls("node", "Ping") : ~trace[i].ok /\ i = Len(trace) - 3

\* C12: once a stop of an agent has failed on a node, the run has ended with
\* the error "'juju-restore' could not manipulate all necessary agents:
\* controllers' agents cannot be managed", and the dump was not replayed and
\* no agent was started (StartAgents was not called).
C12_FailedStopEndsRun ==
    (\E i \in Calls("node", "StopAgent") : ~trace[i].ok) =>
        /\ pc = "done"
        /\ cmdErr.msg = "'juju-restore' could not manipulate all necessary agents: "
                           \o "controllers' agents cannot be managed"
        /\ Calls("db", "RestoreFromDump") = {}
        /\ Calls("restorer", "Restore") = {}
        /\ Calls("restorer", "StartAgents") = {}
        /\ Calls("node", "StartAgent") = {}
        /\ attempt = 0

\* The stop succeeded on a secondary and failed on the self node, so that an
\* agent stays stopped when the run ends.
C12_Witness ==
    /\ pc = "done"
    /\ \E i \in Calls("node", "StopAgent") : trace[i].ok
    /\ \E i \in Calls("node", "StopAgent") : ~trace[i].ok /\ trace[i].arg \in SelfAddresses

\* C13: once RestoreFromDump has failed, Restore has returned its error
\* annotated with the dump directory ("restoring dump from
\* "dump-directory": ..."), the run has ended with that error, no agent
\* version was rewritten and no agent was started, although agents were
\* stopped before.
C13_FailedDumpEndsRun ==
    (\E i \in Calls("db", "RestoreFromDump") : ~trace[i].ok) =>
        /\ pc = "done"
        /\ result.op = "Restore"
        /\ result.err.msg = "restoring dump from \"dump-directory\": mongorestore failed"
        /\ cmdErr = result.err
        /\ Calls("node", "UpdateAgentVersion") = {}
        /\ Calls("node", "StopAgent") # {}
        /\ \A i \in Calls("node", "StopAgent") : trace[i].ok
        /\ Calls("node", "StartAgent") = {}
        /\ Calls("restorer", "StartAgents") = {}

\* The dump failed for a backup of another version than the controller's, in
\* a run that had stopped the agents of several nodes.
C13_Witness ==
    /\ pc = "done"
    /\ \E i \in Calls("db", "RestoreFromDump") : ~trace[i].ok
    /\ backup.value.JujuVersion # controller.value.JujuVersion
    /\ Cardinality(Calls("node", "StopAgent")) > 1

\* C14: an agent version is rewritten only in a run whose backup and
\* controller differ in Juju version when the build numbers are left out.
C14_UpdateOnlyIfVersionsDifferIgnoringBuild ==
    Calls("node", "UpdateAgentVersion") # {} =>
        ~SameIgnoringBuild(backup.value.JujuVersion, controller.value.JujuVersion)

Updates == Calls("node", "UpdateAgentVersion")

\* An untagged version as "major.minor.patch", with ".build" if not zero.
Dotted(v) ==
    ToString(v.Major) \o "." \o ToString(v.Minor) \o "." \o ToString(v.Patch)
        \o (IF v.Build > 0 THEN "." \o ToString(v.Build) ELSE "")

\* Restore has returned and nothing has happened since.
Restored == result.op = "Restore" /\ attempt = 0

\* C15: an agent version is rewritten only after a RestoreFromDump that
\* succeeded; and when Restore has replayed the dump for a backup whose
\* version is not the controller's, it has called UpdateAgentVersion with the
\* backup's version exactly once for the node of every member, under manual
\* agent control too, the self node first.
C15_UpdateEveryNodeAfterDump ==
    /\ \A u \in Updates : \E d \in Calls("db", "RestoreFromDump") : d < u /\ trace[d].ok
    /\ (/\ Restored
        /\ \E d \in Calls("db", "RestoreFromDump") : trace[d].ok
        /\ backup.value.JujuVersion # controller.value.JujuVersion) =>
          /\ \A a \in SelfAddresses \cup OtherAddresses :
                Cardinality({u \in Updates : trace[u].arg = a}) = 1
          /\ \E u \in Updates :
                trace[u].arg \in SelfAddresses /\ \A w \in Updates : u <= w
          /\ result.value.version = Dotted(backup.value.JujuVersion)

\* Under manual agent control, the agent versions of the MaxNodes nodes of a
\* replica set were rewritten to the version of an older backup.
C15_Witness ==
    /\ Restored
    /\ pc = "postChecks"
    /\ manualAgentControl
    /\ Len(replicaSet.Members) = MaxNodes
    /\ Cardinality(Updates) = MaxNodes
    /\ result.value.version = "2.7.5"

\* The message of the error of UpdateAgentVersion on the node of member m,
\* as Restore's operation returns it, when the script printed output there
\* (nothing: the runner failed).
NodeFailure(m, output) ==
    "updating machine " \o m.JujuMachineID \o " (" \o AddressOf(m) \o "): "
        \o (IF output = "" THEN "UpdateAgentVersion failed on " \o AddressOf(m)
            ELSE "update agent script shouldn't have returned any output but got "
                    \o output)

\* The failure messages of the members from the i-th on whose update failed,
\* joined by newlines: the members are in the order of their machine ids,
\* which is the lexicographic order of the messages.
RECURSIVE JoinedFailures(_, _)
JoinedFailures(i, output) ==
    IF i > Len(replicaSet.Members) THEN ""
    ELSE LET m == replicaSet.Members[i]
             failed == \E u \in Updates : trace[u].arg = AddressOf(m) /\ ~trace[u].ok
             rest == JoinedFailures(i + 1, output)
         IN IF ~failed THEN rest
            ELSE NodeFailure(m, output) \o (IF rest = "" THEN "" ELSE "\n" \o rest)

\* C16: when UpdateAgentVersion has failed on a node, it was still called for
\* the node of every member, and Restore has failed with one error whose
\* message is "problems updating controllers to version "<version>": "
\* followed by the failure messages of the nodes, joined by newlines in
\* lexicographic order, whatever the order the results were ranged over and
\* whatever the script printed.
C16_UpdateFailuresJoinedSorted ==
    (Restored /\ \E u \in Updates : ~trace[u].ok) =>
        /\ \A a \in SelfAddresses \cup OtherAddresses : \E u \in Updates : trace[u].arg = a
        /\ result.err # Nil
        /\ \E output \in {"", "no tools directory, can't downgrade", "disk 100% full"} :
              result.err.msg =
                 "problems updating controllers to version \""
                    \o Dotted(backup.value.JujuVersion) \o "\": "
                    \o JoinedFailures(1, output)

\* StartAgents has returned or panicked after a wait whose last attempt
\* failed.
WaitExhausted == result.op = "StartAgents" /\ attemptErr # Nil

\* The addresses of the members of the replica set kept before the wait:
\* the session's member, the other members.
PreAddresses(self) ==
    {AddressOf(pre.Members[k]) : k \in {i \in 1..Len(pre.Members) : pre.Members[i].Self = self}}

StartTargets ==
    IF result.value.all THEN PreAddresses(TRUE) \cup PreAddresses(FALSE) ELSE PreAddresses(TRUE)

\* C18: when every attempt of the wait failed, the Restorer's replica set is
\* again the one it had before the wait and, if that one has a member of the
\* session, StartAgents has run the start on the targeted nodes of it and has
\* returned their results; the command fails only if one of these starts
\* failed, and then with the error of manipulateAgents. The replica set has
\* been queried once by NewRestorer and 20 times by the wait.
C18_ExhaustedWaitIsNoError ==
    WaitExhausted =>
        /\ Cardinality(Calls("db", "ReplicaSet")) = 1 + 20
        /\ replicaSet = pre
        /\ PreAddresses(TRUE) # {} =>
             /\ pc = "done"
             /\ DOMAIN result.value.result = StartTargets
             /\ {trace[i].arg : i \in Calls("node", "StartAgent")} = StartTargets
             /\ cmdErr = IF \E ip \in StartTargets : result.value.result[ip] # Nil
                         THEN manipulateAgentsError ELSE Nil

\* A run on an HA controller restored the dump, every attempt of the wait
\* failed, the agents of both nodes were started and the command succeeded.
C18_Witness ==
    /\ WaitExhausted
    /\ ~restart
    /\ pc = "done"
    /\ cmdErr = Nil
    /\ Len(pre.Members) = MaxNodes
    /\ Cardinality(Calls("node", "StartAgent")) = MaxNodes

\* Run has returned or panicked.
Exited == pc \in {"done", "panicked"}

\* c.connect has returned a database; openBackup has returned a backup.
ConnectionOpened == pc # "start" /\ cmdErr.kind \notin {"loggers", "creds", "connect"}

BackupOpened == ConnectionOpened /\ pc # "connected" /\ cmdErr.kind # "open"

\* The places in trace of the calls made on obj.
CallsOn(obj) == {i \in 1..Len(trace) : trace[i].obj = obj}

\* C19: once Run has returned or panicked after c.connect returned a
\* database, Close has been called exactly once on the database and no call
\* on the database follows it; Close has been called exactly once on the
\* backup if openBackup returned one, and never otherwise. Before Run
\* returns nothing is closed.
C19_ClosedOnEveryExit ==
    /\ (Exited /\ ConnectionOpened) =>
          /\ Cardinality(Calls("db", "Close")) = 1
          /\ \A i \in Calls("db", "Close") : \A j \in CallsOn("db") : j <= i
          /\ Cardinality(Calls("backup", "Close")) = (IF BackupOpened THEN 1 ELSE 0)
          /\ \A i \in Calls("backup", "Close") : \A j \in CallsOn("backup") : j <= i
    /\ ~(Exited /\ ConnectionOpened) =>
          Calls("db", "Close") \cup Calls("backup", "Close") = {}

\* A run that restored and started the agents after a wait has returned nil:
\* the backup was closed, then the database, after the queries of the wait.
C19_Witness ==
    /\ pc = "done"
    /\ cmdErr = Nil
    /\ ~restart
    /\ Cardinality(Calls("db", "ReplicaSet")) > 1
    /\ trace[Len(trace)] = Event("db", "Close", "", TRUE)
    /\ trace[Len(trace) - 1] = Event("backup", "Close", "", TRUE)

(***************************************************************************)
(* Claims on SpecRestorerFair                                              *)
(***************************************************************************)
\* The queries of the replica set the wait has made.
Queries == Calls("db", "ReplicaSet")

ToolRan ==
    /\ result.op = "RestoreFromDump"
    /\ \E i \in 1..Len(trace) : trace[i].obj = "exec"
    /\ ~result.value.env.writeErr

\* C20: after RestoreFromDump has run the dump tool, the file at the log
\* file path holds what the tool wrote to its standard output and standard
\* error, whether the tool exited with an error or not.
C20_OutputLoggedOnSuccessAndFailure ==
    ToolRan => result.value.after[LogFile] = result.value.env.output

(***************************************************************************)
(* Claims about backup.Open and Close (SpecBackup).                        *)
(***************************************************************************)
\* Open has failed after it created its temporary directory.
OpenFailedAfterTempDir ==
    /\ result.op = "Open"
    /\ result.err # Nil
    /\ result.err.kind # "tempdir"

Closed == result.op = "Close"

\* The paths under tempRoot.
UnderTempRoot(files) == {f \in files : IsPrefix(result.value.tempRoot, f)}

\* C21 as stated: once Open has failed after creating its temporary
\* directory, and once Close has been called after a successful Open, the
\* paths under tempRoot are those that were there before Open was called.
C21_NothingRemains ==
    (OpenFailedAfterTempDir \/ Closed) =>
        UnderTempRoot(result.value.files) = UnderTempRoot(result.value.before)

\* C21: once Open has failed after creating its temporary directory without
\* logging that it could not remove it, and once Close has returned nil after
\* a successful Open, the paths under tempRoot are those that were there
\* before Open was called; and as long as a successful Open has not been
\* closed, no other path was touched.
C21_NothingRemainsUnlessRemoveAllFails ==
    /\ (OpenFailedAfterTempDir /\ ~result.value.logged) =>
          result.value.files = result.value.before
    /\ (Closed /\ result.err = Nil) => result.value.files = result.value.before
    /\ (result.op = "Open" /\ result.err = Nil) =>
          /\ result.value.before \subseteq result.value.files
          /\ \A f \in result.value.files \ result.value.before :
                IsPrefix(result.value.dir, f)

\* Open extracted the backup file and failed on root.tar after writing a
\* part of it, and removed its directory: tempRoot holds what it held before.
C21_Witness ==
    /\ OpenFailedAfterTempDir
    /\ ~result.value.logged
    /\ result.err.msg = "extracting root.tar in \"/tmp/juju-restore012345\": unexpected EOF"
    /\ result.value.before # {}
    /\ result.value.files = result.value.before

(***************************************************************************)
(* Claims about expandedBackup.Metadata (SpecMetadata).                    *)
(***************************************************************************)
\* Metadata has been applied to a backup whose metadata.json is a document.
MetadataOfDocument == result.op = "Metadata" /\ result.value.dir.metadata.kind = "json"

Document == result.value.dir.metadata.doc

\* The machines of list that are of the model and carry job 2.
ManagersOf(list, uuid) ==
    {k \in 1..Len(list) : list[k].uuid = uuid /\ \E j \in 1..Len(list[k].jobs) : list[k].jobs[j] = 2}

\* C22: Metadata fails with "unsupported backup format version N" (under
\* "reading metadata") on a document whose formatVersion N is above 1; on
\* one of formatVersion 1 it reports the document's haNodes and model UUID;
\* on any other it reports format 0, the document's Environment as the
\* controller-model UUID and, as haNodes, the number of documents of
\* controllerNodes.bson if that file exists and else the number of documents
\* of machines.bson that are of that model and carry job 2.
C22_FormatVersionDecidesHANodes ==
    MetadataOfDocument =>
        /\ Document.FormatVersion > 1 =>
             result.err.msg = "reading metadata: unsupported backup format version "
                                \o ToString(Document.FormatVersion)
        /\ (Document.FormatVersion = 1 /\ result.err = Nil) =>
             /\ result.value.metadata.FormatVersion = 1
             /\ result.value.metadata.HANodes = Document.HANodes
             /\ result.value.metadata.ControllerModelUUID = Document.ModelUUID
        /\ (Document.FormatVersion < 1 /\ result.err = Nil) =>
             /\ result.value.metadata.FormatVersion = 0
             /\ result.value.metadata.ControllerModelUUID = Document.Environment
             /\ \A n \in ControllerNodeCounts :
                  result.value.dir.controllerNodes = ControllerNodesFile(n) =>
                      result.value.metadata.HANodes = n
             /\ \A list \in MachineLists :
                  (/\ ~result.value.dir.controllerNodes.exists
                   /\ result.value.dir.machines = MachinesFile(list)) =>
                      result.value.metadata.HANodes =
                          Cardinality(ManagersOf(list, Document.Environment))

\* Metadata of a format 0 backup without controllerNodes.bson whose
\* machines.bson holds three controller machines of its model among six.
C22_Witness ==
    /\ MetadataOfDocument
    /\ result.err = Nil
    /\ Document.FormatVersion = 0
    /\ Document.Environment = "how-bizarre"
    /\ ~result.value.dir.controllerNodes.exists
    /\ result.value.dir.machines.exists
    /\ result.value.metadata.HANodes = 3
    /\ result.value.metadata.HANodes # Document.HANodes

\* C23: when models.bson is made of n whole documents and nothing else,
\* Metadata does not fail on counting the models and the ModelCount it
\* reports is n.
C23_ModelCountIsDocumentCount ==
    (/\ result.op = "Metadata"
     /\ result.value.dir.models.exists
     /\ result.value.tail = <<>>) =>
        /\ result.err.msg \notin {"counting models: EOF", "counting models: unexpected EOF"}
        /\ result.err = Nil => result.value.metadata.ModelCount = Len(result.value.docs)

\* Metadata counted MaxDocs models in a models.bson whose first document
\* holds bytes that read like a size.
C23_Witness ==
    /\ result.op = "Metadata"
    /\ result.err = Nil
    /\ result.value.tail = <<>>
    /\ Len(result.value.docs) = MaxDocs
    /\ result.value.docs[1] = <<9, 0, 0, 0, 5, 0, 0, 0, 0>>
    /\ result.value.metadata.ModelCount = MaxDocs

(***************************************************************************)
(* Claims about UserConfirmYes (SpecConfirm).                              *)
(***************************************************************************)
Confirmed == result.op = "UserConfirmYes"

Typed == result.value.stdin

Decisive == {"y", "Y", "n", "N", "\n", "\r"}

FirstDecisive ==
    IF \E k \in 1..Len(Typed) : Typed[k] \in Decisive
    THEN CHOOSE k \in 1..Len(Typed) :
            Typed[k] \in Decisive /\ \A j \in 1..(k - 1) : Typed[j] \notin Decisive
    ELSE 0

Snap == result.value.sn

SnapBefore == result.value.before

\* The addresses of the nodes, the primary's first and the primary's last.
PrimaryFirstIPs == <<Snap.primary.ip>> \o [k \in 1..Len(Snap.others) |-> Snap.others[k].ip]

PrimaryLastIPs == [k \in 1..Len(Snap.others) |-> Snap.others[k].ip] \o <<Snap.primary.ip>>

NodeIPs == {PrimaryFirstIPs[k] : k \in 1..Len(PrimaryFirstIPs)}

\* The node of an address, as the error messages print it.
MachineAt(ip) ==
    LET k == CHOOSE j \in 1..Len(PrimaryFirstIPs) : PrimaryFirstIPs[j] = ip
    IN "machine " \o ToString(k - 1) \o " (" \o ip \o ")"

\* Calls of op that succeed, on the nodes of ips, in their order.
NodeCallsOn(op, ips) == [k \in 1..Len(ips) |-> Event("node", op, ips[k], TRUE)]

\* The places in the trace of the calls of op.
Places(op) == {k \in 1..Len(trace) : trace[k].op = op}

\* C26: a Snapshot that succeeds has stopped the database service on every
\* node, the primary last, then called SnapshotDatabase on every node, then
\* started the database service on every node, the primary first, then
\* reconnected, in this order and with no other call; and it has recorded
\* under the address of each node the name that node returned.
C26_SnapshotOrder ==
    (result.op = "Snapshot" /\ result.err = Nil) =>
        /\ trace = NodeCallsOn("StopService", PrimaryLastIPs)
                     \o NodeCallsOn("SnapshotDatabase", PrimaryFirstIPs)
                     \o NodeCallsOn("StartService", PrimaryFirstIPs)
                     \o <<Event("db", "Reconnect", "", TRUE)>>
        /\ Snap.snapshots = [ip \in NodeIPs |-> SnapshotName(ip)]

\* A Snapshot succeeded over the primary and MaxOthers other nodes.
C26_Witness ==
    /\ result.op = "Snapshot"
    /\ result.err = Nil
    /\ Len(Snap.others) = MaxOthers
    /\ trace[1] = Event("node", "StopService", Host(2), TRUE)
    /\ DOMAIN Snap.snapshots = NodeIPs

\* C27: a Restore that finds a node, the primary or another, with no
\* recorded snapshot fails and calls neither StopService nor RestoreSnapshot
\* on any node.
C27_RestoreNeedsEverySnapshot ==
    (result.op = "Restore" /\ ~(NodeIPs \subseteq DOMAIN SnapBefore.snapshots)) =>
        /\ result.err # Nil
        /\ Places("StopService") = {}
        /\ Places("RestoreSnapshot") = {}
        /\ Snap = SnapBefore

\* A Restore failed that found snapshots of some of the nodes only.
C27_Witness ==
    /\ result.op = "Restore"
    /\ DOMAIN SnapBefore.snapshots # {}
    /\ DOMAIN SnapBefore.snapshots # NodeIPs
    /\ result.err = Errorf("core", "not all machines have snapshots so only discarding is allowed")
    /\ trace = <<>>

\* The place of the RestoreSnapshot that failed, if one did.
FailedRestore == {k \in Places("RestoreSnapshot") : ~trace[k].ok}

\* C28: when a RestoreSnapshot fails during Restore it is the last one
\* called, the nodes after it in primary-first order are not attempted, and
\* Restore returns its error; the restart of the databases (which asks the
\* status of every node) follows if and only if no RestoreSnapshot had
\* succeeded, and after a partial restore no StartService is called.
C28_FailedRestoreStops ==
    (result.op = "Restore" /\ FailedRestore # {}) =>
        LET restores == SelectSeq(trace, LAMBDA e : e.op = "RestoreSnapshot")
            n == Len(restores)
            ip == restores[n].arg
        IN /\ \A k \in 1..n : restores[k].arg = PrimaryFirstIPs[k] /\ (restores[k].ok <=> k < n)
           /\ result.err = Errorf("machine",
                  "on " \o MachineAt(ip) \o ": restoring snapshot " \o Quote(SnapshotName(ip))
                    \o ": RestoreSnapshot failed on " \o ip)
           /\ (Places("Status") # {}) <=> (n = 1)
           /\ n = 1 => SelectSeq(trace, LAMBDA e : e.op = "Status")
                         = [k \in 1..Len(PrimaryFirstIPs) |->
                              Event("node", "Status", PrimaryFirstIPs[k],
                                    "Status" \notin Snap.faults[PrimaryFirstIPs[k]])]
           /\ n > 1 => Places("StartService") = {} /\ Snap.running = {}

\* The primary was restored, the restore of the next node failed, a third
\* node was not attempted and no database was started.
C28_Witness ==
    /\ result.op = "Restore"
    /\ Len(Snap.others) = MaxOthers
    /\ Places("RestoreSnapshot") = {Len(PrimaryFirstIPs) + 1, Len(PrimaryFirstIPs) + 2}
    /\ FailedRestore = {Len(PrimaryFirstIPs) + 2}
    /\ Len(trace) = Len(PrimaryFirstIPs) + 2
    /\ DOMAIN Snap.snapshots = NodeIPs \ {Host(1)}

\* The calls of a Snapshot before the restart: those before the first
\* Status.
SnapshotSteps ==
    IF Places("Status") = {} THEN trace
    ELSE SubSeq(trace, 1, (CHOOSE k \in Places("Status") : \A j \in Places("Status") : k <= j) - 1)

\* Whether the database of a node was stopped when the steps ended: its
\* service was stopped and not started since, or was found stopped.
StoppedAfterSteps(ip) ==
    LET own == SelectSeq(SnapshotSteps,
                         LAMBDA e : e.arg = ip /\ e.ok /\ e.op \in {"StopService", "StartService"})
    IN IF own = <<>> THEN ip \notin SnapBefore.running
       ELSE own[Len(own)].op = "StopService"

\* The visit the restart pays to a node.
RestartVisit(ip) ==
    <<Event("node", "Status", ip, "Status" \notin Snap.faults[ip])>>
      \o (IF "Status" \notin Snap.faults[ip] /\ StoppedAfterSteps(ip)
          THEN <<Event("node", "StartService", ip, "StartService" \notin Snap.faults[ip])>>
          ELSE <<>>)

\* The error of the step that the last call of the steps failed.
StepError ==
    LET last == SnapshotSteps[Len(SnapshotSteps)]
        step == CASE last.op = "StopService" -> "stopping databases"
                  [] last.op = "SnapshotDatabase" -> "snapshotting databases"
                  [] last.op = "StartService" -> "starting databases"
                  [] last.op = "Reconnect" -> "reconnecting to db"
    IN IF last.op = "Reconnect" THEN Errorf("db", step \o ": no reachable servers")
       ELSE Errorf("machine", step \o ": on " \o MachineAt(last.arg) \o ": "
                                \o last.op \o " failed on " \o last.arg)

\* C29: a Snapshot that starts its steps and fails returns the error of the
\* step that failed, which is the last call of the steps, and then visits
\* every node, the primary first: it asks the status of the node and calls
\* StartService on it if and only if the status was answered and reports
\* the database stopped, whatever the earlier visits returned; a Snapshot
\* that succeeds asks no status and makes no call after Reconnect.
C29_FailedSnapshotRestarts ==
    (result.op = "Snapshot" /\ DOMAIN SnapBefore.snapshots = {}) =>
        /\ result.err # Nil =>
             /\ SnapshotSteps # <<>>
             /\ ~SnapshotSteps[Len(SnapshotSteps)].ok
             /\ \A k \in 1..(Len(SnapshotSteps) - 1) : SnapshotSteps[k].ok
             /\ result.err = StepError
             /\ trace = SnapshotSteps
                          \o Flatten([k \in 1..Len(PrimaryFirstIPs) |->
                                        RestartVisit(PrimaryFirstIPs[k])])
        /\ result.err = Nil =>
             /\ Places("Status") = {}
             /\ trace[Len(trace)].op = "Reconnect"

\* A Snapshot failed to start a database; the restart then got no status
\* from the primary, failed to start the next node and started a third.
C29_Witness ==
    /\ result.op = "Snapshot"
    /\ result.err # Nil
    /\ Len(Snap.others) = MaxOthers
    /\ \E i, j, k \in 1..Len(trace) :
         /\ i < j /\ j < k
         /\ trace[i] = Event("node", "Status", Host(1), FALSE)
         /\ trace[j] = Event("node", "StartService", Host(2), FALSE)
         /\ trace[j - 1] = Event("node", "Status", Host(2), TRUE)
         /\ trace[k] = Event("node", "StartService", Host(3), TRUE)

\* The nodes with a recorded snapshot, the primary first.
Recorded == SelectSeq(PrimaryFirstIPs, LAMBDA ip : ip \in DOMAIN SnapBefore.snapshots)

\* C30: Discard calls DiscardSnapshot once on each node with a recorded
\* snapshot, the primary first, whatever the earlier discards returned, and
\* on no other node; it returns the error that counts the discards that
\* failed if one did, and nil otherwise.
C30_DiscardVisitsEveryRecord ==
    result.op = "Discard" =>
        LET fails == {k \in 1..Len(Recorded) : "DiscardSnapshot" \in Snap.faults[Recorded[k]]}
        IN /\ trace = [k \in 1..Len(Recorded) |->
                         Event("node", "DiscardSnapshot", Recorded[k], k \notin fails)]
           /\ result.err = IF fails # {}
                           THEN Errorf("core", "errors discarding snapshots: "
                                                 \o ToString(Cardinality(fails)))
                           ELSE Nil

\* The discard on the primary failed, the one on the next node was made all
\* the same, and a node with no record was skipped.
C30_Witness ==
    /\ result.op = "Discard"
    /\ Len(Snap.others) = MaxOthers
    /\ DOMAIN SnapBefore.snapshots = {Host(1), Host(2)}
    /\ trace = <<Event("node", "DiscardSnapshot", Host(1), FALSE),
                 Event("node", "DiscardSnapshot", Host(2), TRUE)>>
    /\ result.err = Errorf("core", "errors discarding snapshots: 1")

\* C31: in a Snapshot and in a Restore, every SnapshotDatabase and every
\* RestoreSnapshot comes after a StopService that succeeded on each node and
\* before every StartService of the call.
C31_OnlyWhileEveryDatabaseIsStopped ==
    result.op \in {"Snapshot", "Restore"} =>
        \A k \in Places("SnapshotDatabase") \cup Places("RestoreSnapshot") :
            /\ \A ip \in NodeIPs :
                 \E j \in 1..(k - 1) : trace[j] = Event("node", "StopService", ip, TRUE)
            /\ \A j \in Places("StartService") : k < j

\* A Restore restored every node and then started the databases.
C31_Witness ==
    /\ result.op = "Restore"
    /\ result.err = Nil
    /\ Len(Snap.others) = MaxOthers
    /\ Cardinality(Places("RestoreSnapshot")) = MaxOthers + 1
    /\ Cardinality(Places("StartService")) = MaxOthers + 1

\* The addresses on which a call of op succeeded.
SucceededOn(op) == {trace[k].arg : k \in {j \in Places(op) : trace[j].ok}}

\* C32: a call gives the snapshot map an entry only for a node on which
\* SnapshotDatabase succeeded and takes an entry away only for a node on
\* which RestoreSnapshot succeeded, and changes no entry it keeps; Discard
\* leaves the map as it was; and a Snapshot that finds an entry is refused
\* with "snapshots have already been created", calls nothing and changes
\* nothing.
C32_SnapshotMapChanges ==
    result.op \in {"Snapshot", "Restore", "Discard"} =>
        LET before == SnapBefore.snapshots
            after == Snap.snapshots
        IN /\ DOMAIN after \ DOMAIN before \subseteq SucceededOn("SnapshotDatabase")
           /\ DOMAIN before \ DOMAIN after \subseteq SucceededOn("RestoreSnapshot")
           /\ \A ip \in DOMAIN before \cap DOMAIN after : after[ip] = before[ip]
           /\ result.op = "Discard" => after = before
           /\ (result.op = "Snapshot" /\ DOMAIN before # {}) =>
                /\ result.err = Errorf("core", "snapshots have already been created")
                /\ trace = <<>>
                /\ Snap = SnapBefore

\* A Snapshot was refused that found the snapshots of some of the nodes.
C32_Witness ==
    /\ result.op = "Snapshot"
    /\ DOMAIN SnapBefore.snapshots = {Host(1)}
    /\ Len(Snap.others) = MaxOthers
    /\ result.err = Errorf("core", "snapshots have already been created")
    /\ trace = <<>>

(***************************************************************************)
(* Claims about countBsonDocs (SpecBson).                                  *)
(***************************************************************************)
\* C38: countBsonDocs of a file that ends in a size cut short, in a size
\* below 4 or in a document longer than what is left of the file returns an
\* error, not a panic, and no count.
C38_MalformedStreamIsAnError ==
    (result.op = "countBsonDocs" /\ result.value.tail # <<>>) =>
        /\ result.err # Nil
        /\ result.err.kind # "panic"
        /\ result.value.count = 0

(***************************************************************************)
(* More claims about a run of the restore command (Spec).                  *)
(***************************************************************************)
\* C33: a restore run that returned nil has called Reconnect on the database after
\* StartAgents returned and before it closed the database.
C33_ReconnectsBeforeClosing ==
    (pc = "done" /\ cmdErr = Nil /\ ~restart) =>
        \E s \in Calls("restorer", "StartAgents") : \E r \in Calls("db", "Reconnect") :
        \E c \in Calls("db", "Close") : s < r /\ r < c

\* The place in trace of the answer to the question about releasing the
\* agents when it was a no (n or Enter), as a set.
ChoseManual ==
    {i \in Calls("ui", "releaseAgentsControl") : ~trace[i].ok /\ trace[i].arg # ""}

\* The addresses of the members of rs that are the session's.
SelfAddressesOf(rs) ==
    {AddressOf(rs.Members[i]) : i \in {k \in 1..Len(rs.Members) : rs.Members[k].Self}}

\* The replica set StopAgents worked on: the Restorer's, until the wait of
\* StartAgents began and kept it as pre.
StoppedOn == IF rpc = "idle" /\ result.op # "StartAgents" THEN replicaSet ELSE pre

\* C34: once the user has answered no to the release of the agents (asked
\* only of an HA controller run without manual agent control), the run is
\* under manual agent control and has not ended on that answer: the final
\* confirmation is what comes next, no secondary was pinged, and every stop
\* and start of an agent was on the node of the session's member.
C34_DeclinedReleaseTurnsManual ==
    \A i \in ChoseManual :
        /\ manualAgentControl
        /\ Len(StoppedOn.Members) > 1
        /\ Calls("node", "Ping") = {}
        /\ Calls("restorer", "CheckSecondaryControllerNodes") = {}
        /\ IF i = Len(trace) THEN pc = "confirmPrompt"
           ELSE trace[i + 1].obj = "ui" /\ trace[i + 1].op = "preChecksCompleted"
        /\ Cardinality(Calls("node", "StopAgent")) <= 1
        /\ Cardinality(Calls("node", "StartAgent")) <= 1
        /\ \A k \in Calls("node", "StopAgent") : trace[k].arg \in SelfAddressesOf(StoppedOn)
        /\ \A k \in Calls("node", "StartAgent") : trace[k].arg \in SelfAddressesOf(replicaSet)

\* The user declined the release on a controller of MaxNodes nodes,
\* confirmed the restore, and the run returned nil having stopped and
\* started one agent.
C34_Witness ==
    /\ ChoseManual # {}
    /\ pc = "done"
    /\ cmdErr = Nil
    /\ Len(replicaSet.Members) = MaxNodes
    /\ Cardinality(Calls("node", "StopAgent")) = 1
    /\ Cardinality(Calls("node", "StartAgent")) = 1

\* The queries of the replica set among the calls of t.
ReplicaSetQueries(t) ==
    Cardinality({i \in 1..Len(t) : t[i].obj = "db" /\ t[i].op = "ReplicaSet"})

\* C35: a step queries the replica set or changes the Restorer's replica set
\* only if it is NewRestorer or a step of StartAgents (an attempt of the
\* wait, or its end, which keeps the refreshed set if the last attempt
\* passed and puts the pre-wait set back if not); the checks, StopAgents and
\* Restore do neither.
C35_ReplicaSetReadOnlyWhereSpecified ==
    [][/\ (ReplicaSetQueries(trace') # ReplicaSetQueries(trace) \/ replicaSet' # replicaSet)
            => (pc = "opened" \/ rpc = "stabilising")
       /\ (rpc = "stabilising" /\ rpc' = "idle")
            => /\ replicaSet' = IF attemptErr # Nil THEN pre ELSE replicaSet
               /\ ReplicaSetQueries(trace') = ReplicaSetQueries(trace)]_vars

\* A run has stopped the agents and restored, and the wait of StartAgents
\* has read a replica set that is not the one read by NewRestorer.
C35_Witness ==
    /\ pc = "postChecks"
    /\ ~restart
    /\ rpc = "stabilising"
    /\ attempt > 1
    /\ replicaSet # pre
    /\ Calls("node", "StopAgent") # {}
    /\ ReplicaSetQueries(trace) = 1 + attempt

\* C37: in a run that is not the restart run, the replica set StopAgents is
\* about to work on and the one StartAgents is about to work on after the
\* wait, passed or exhausted, have a member of the session, and no agent
\* operation has panicked.
C37_AgentsManagedOnASelfMember ==
    ~restart =>
        /\ pc = "stopAgents" => SelfAddressesOf(replicaSet) # {}
        /\ (pc = "postChecks" /\ rpc = "stabilising" /\ WaitOver)
             => SelfAddressesOf(Stabilised) # {}
        /\ pc # "panicked"
        /\ result.op \in {"StopAgents", "StartAgents"} =>
             /\ ~result.value.panicked
             /\ SelfAddressesOf(replicaSet) # {}

\* StartAgents has run in a restore run after a wait that passed on its
\* second attempt or later, on a refreshed replica set.
C37_Witness ==
    /\ ~restart
    /\ result.op = "StartAgents"
    /\ attemptErr = Nil
    /\ attempt > 1
    /\ replicaSet # pre
    /\ Calls("node", "StartAgent") # {}

(***************************************************************************)
(* Claims about remoteRunner.RunScript (SpecRunner).                       *)
(***************************************************************************)
\* C36: when RunScript has returned, with an error or without, neither the
\* local machine nor the target holds the script file.
C36_ScriptRemovedEverywhere ==
    result.op = "RunScript" =>
        /\ result.value.local = {}
        /\ result.value.remote = {}

====
